---- MODULE Spec2Model ----
(***************************************************************************)
(* python-telestailib: the address / key codec and the message-signing     *)
(* protocol (telestai/__init__.py, telestai/wallet.py,                     *)
(* telestai/signmessage.py).                                               *)
(*                                                                         *)
(* Bytes are integers 0..255, byte strings are sequences of bytes with     *)
(* their real lengths (20-byte hashes, 32-byte scalars, 33/65-byte public  *)
(* keys).  Text strings are sequences of one-character strings.            *)
(***************************************************************************)
EXTENDS Integers, Sequences, FiniteSets, TLC

(***************************************************************************)
(* Bounds of the model: how many distinct byte patterns the inputs are     *)
(* drawn from, and the longest key body that is encoded again.             *)
(***************************************************************************)
MaxSeed == 2

MaxKeyBytes == 34

Seeds == 1..MaxSeed

(***************************************************************************)
(* Byte-string helpers.                                                    *)
(***************************************************************************)
Slice(b, lo, hi) ==
    \* Python b[lo:hi] (0-based, hi exclusive, clamped to the length).
    LET h == IF hi > Len(b) THEN Len(b) ELSE hi
    IN  IF lo >= h THEN <<>> ELSE SubSeq(b, lo + 1, h)

RECURSIVE SumBytes(_, _, _)
SumBytes(b, lo, hi) ==
    \* sum over lo <= j <= hi of (j + 1) * b[j], mod 65536, by halves
    IF lo > hi THEN 0
    ELSE IF lo = hi THEN ((lo + 1) * b[lo]) % 65536
    ELSE LET mid == (lo + hi) \div 2
         IN  (SumBytes(b, lo, mid) + SumBytes(b, mid + 1, hi)) % 65536

Repeat(x, n) == [i \in 1..n |-> x]

Pattern(seed, n) ==
    \* the n-byte input pattern number `seed`
    [i \in 1..n |-> (37 * seed + 11 * i) % 256]

(***************************************************************************)
(* Hash functions.  SHA256 and RIPEMD160 themselves are outside the model: *)
(* a digest is a deterministic function of every byte and of the length of *)
(* its input.  At the two strings the test-suite uses, double-SHA256 takes *)
(* the value the real function has there.                                  *)
(***************************************************************************)
Digest(tag, b, n) ==
    LET s == SumBytes(b, 1, Len(b))
    IN  [i \in 1..n |->
            (tag + 31 * i + (s % 256) * (i + 1) + (s \div 256) * (2 * i + 1)
             + 7 * Len(b)) % 256]

VectorAddrPayload ==
    \* version byte and hash160 of "RL5dKQv7ZZYrqSYXNVgy2HvncjcQf8G6at"
    <<60, 118, 121, 118, 6, 206, 210, 63, 79, 114, 66, 74, 195, 194, 187, 51,
      168, 210, 135, 218, 73>>

VectorWifPayload ==
    \* version byte, scalar and compression flag of
    \* "L1gVQSmAJDnkK1A1V3mJehL9xQbdai9CCx65d29seRFGVVheyngq"
    <<128, 133, 32, 69, 108, 101, 109, 169, 33, 74, 185, 167, 27, 35, 138, 87,
      82, 190, 252, 181, 198, 215, 28, 218, 113, 196, 67, 30, 210, 88, 108,
      180, 227, 1>>

double_sha256(b) ==
    IF b = VectorAddrPayload
    THEN <<124, 142, 182, 41>> \o Digest(1, b, 28)
    ELSE IF b = VectorWifPayload
    THEN <<118, 155, 237, 106>> \o Digest(1, b, 28)
    ELSE Digest(2, b, 32)

Hash160(b) == Digest(3, b, 20)

(***************************************************************************)
(* telestai.base58: plain base-58 of a byte string (no checksum).          *)
(***************************************************************************)
B58_DIGITS ==
    <<"1", "2", "3", "4", "5", "6", "7", "8", "9",
      "A", "B", "C", "D", "E", "F", "G", "H", "J", "K", "L", "M", "N",
      "P", "Q", "R", "S", "T", "U", "V", "W", "X", "Y", "Z",
      "a", "b", "c", "d", "e", "f", "g", "h", "i", "j", "k", "m", "n",
      "o", "p", "q", "r", "s", "t", "u", "v", "w", "x", "y", "z">>

B58Chars == {B58_DIGITS[i] : i \in 1..58}

B58Value(c) == (CHOOSE i \in 1..58 : B58_DIGITS[i] = c) - 1

CountLeading(s, x) ==
    \* how many elements equal to x the sequence s starts with
    LET other == {i \in 1..Len(s) : s[i] # x}
    IN  IF other = {} THEN Len(s)
        ELSE (CHOOSE i \in other : \A j \in other : i <= j) - 1

StripLeading(s, x) == Slice(s, CountLeading(s, x), Len(s))

(* The integer n of encode and decode is held as a big-endian sequence of   *)
(* 16-bit limbs without leading zero limbs; two base-58 digits are taken    *)
(* or added per pass.                                                       *)
ToLimbs(b) ==
    LET p == IF Len(b) % 2 = 1 THEN <<0>> \o b ELSE b
    IN  StripLeading([i \in 1..(Len(p) \div 2) |-> p[2 * i - 1] * 256 + p[2 * i]],
                     0)

FromLimbs(l) ==
    StripLeading([i \in 1..(2 * Len(l)) |->
                     IF i % 2 = 1 THEN l[(i + 1) \div 2] \div 256
                     ELSE l[i \div 2] % 256],
                 0)

RECURSIVE DivMod(_, _, _, _, _)
DivMod(num, d, i, rem, quot) ==
    \* long division of the limb sequence num by d
    IF i > Len(num) THEN [q |-> StripLeading(quot, 0), r |-> rem]
    ELSE LET cur == rem * 65536 + num[i]
         IN  DivMod(num, d, i + 1, cur % d, Append(quot, cur \div d))

RECURSIVE B58DigitsOf(_, _)
B58DigitsOf(num, acc) ==
    \* while n > 0: n, r = divmod(n, 58); res.append(B58_DIGITS[r]); reversed
    IF num = <<>> THEN acc
    ELSE LET d == DivMod(num, 3364, 1, 0, <<>>)
             lo == B58_DIGITS[(d.r % 58) + 1]
             hi == B58_DIGITS[(d.r \div 58) + 1]
         IN  IF d.q = <<>> /\ d.r < 58 THEN <<lo>> \o acc
             ELSE B58DigitsOf(d.q, <<hi, lo>> \o acc)

base58_encode(b) ==
    Repeat("1", CountLeading(b, 0)) \o B58DigitsOf(ToLimbs(b), <<>>)

RECURSIVE MulAdd(_, _, _, _, _)
MulAdd(num, m, i, carry, acc) ==
    \* num * m + carry on a limb sequence, from the last limb
    IF i = 0 THEN (IF carry = 0 THEN acc ELSE <<carry>> \o acc)
    ELSE LET cur == num[i] * m + carry
         IN  MulAdd(num, m, i - 1, cur \div 65536, <<cur % 65536>> \o acc)

RECURSIVE B58Number(_, _, _)
B58Number(s, i, num) ==
    \* for c in s: n = n * 58 + digit(c)
    IF i > Len(s) THEN num
    ELSE IF i = Len(s)
    THEN MulAdd(num, 58, Len(num), B58Value(s[i]), <<>>)
    ELSE B58Number(s, i + 2,
                   MulAdd(num, 3364, Len(num),
                          B58Value(s[i]) * 58 + B58Value(s[i + 1]), <<>>))

base58_valid(s) == \A i \in 1..Len(s) : s[i] \in B58Chars

base58_decode(s) ==
    \* defined for strings of base-58 characters (base58_valid)
    Repeat(0, CountLeading(s, "1")) \o FromLimbs(B58Number(s, 1, <<>>))

(***************************************************************************)
(* telestai/__init__.py: the three parameter tables.                       *)
(***************************************************************************)
Networks == {"mainnet", "testnet", "regtest"}

MainParams == [PUBKEY_ADDR |-> 66, SCRIPT_ADDR |-> 127, SECRET_KEY |-> 128]

TestNetParams == [PUBKEY_ADDR |-> 111, SCRIPT_ADDR |-> 196, SECRET_KEY |-> 239]

RegTestParams == [PUBKEY_ADDR |-> 111, SCRIPT_ADDR |-> 196, SECRET_KEY |-> 239]

BASE58_PREFIXES(net) ==
    CASE net = "mainnet" -> MainParams
      [] net = "testnet" -> TestNetParams
      [] net = "regtest" -> RegTestParams

(***************************************************************************)
(* Results.  Every operation returns a record whose err field is "" on     *)
(* success and the name of the raised error otherwise.                     *)
(***************************************************************************)
NoObj == [cls |-> "none", data |-> <<>>, nVersion |-> -1,
          compressed |-> FALSE, pub |-> <<>>]

Ok(obj) == [err |-> "", obj |-> obj]

Raise(e) == [err |-> e, obj |-> NoObj]

(***************************************************************************)
(* telestai.base58.CBase58Data: Base58Check on top of base-58.             *)
(***************************************************************************)
CBase58Data_from_bytes(cls, data, nVersion) ==
    [cls |-> cls, data |-> data, nVersion |-> nVersion,
     compressed |-> FALSE, pub |-> <<>>]

CBase58Data_new(cls, s) ==
    \* k = decode(s); verbyte, data, check0 = k[0:1], k[1:-4], k[-4:].
    \* Four decoded bytes leave no version byte: too short as well.
    IF ~base58_valid(s) THEN Raise("InvalidBase58Error")
    ELSE LET k == base58_decode(s)
         IN  IF Len(k) < 4 \/ Len(k) = 4 THEN Raise("Base58TooShort")
             ELSE LET payload == Slice(k, 0, Len(k) - 4)
                      check0  == Slice(k, Len(k) - 4, Len(k))
                      check1  == Slice(double_sha256(payload), 0, 4)
                  IN  IF check0 # check1 THEN Raise("Base58ChecksumError")
                      ELSE Ok(CBase58Data_from_bytes(
                               cls, Slice(payload, 1, Len(payload)), payload[1]))

CBase58Data_str(self) ==
    \* vs = bchr(self.nVersion) + self; encode(vs + Hash(vs)[0:4])
    LET vs == <<self.nVersion>> \o self.data
    IN  base58_encode(vs \o Slice(double_sha256(vs), 0, 4))

IsBase58Error(e) ==
    e \in {"InvalidBase58Error", "Base58TooShort", "Base58ChecksumError",
           "CTelestaiSecretError"}

(***************************************************************************)
(* telestai.core.key: the curve library.  The curve itself is outside the  *)
(* model: a public key is a deterministic function of the scalar, 33 bytes *)
(* compressed and 65 bytes uncompressed, and a compact signature carries   *)
(* what recovery needs to recompute the signer's public key.               *)
(***************************************************************************)
ScalarLen == 32

PubX(secret) == Digest(5, secret, 32)

PubY(x) == Digest(6, x, 32)

PubKeyBytes(x, compressed) ==
    IF compressed THEN <<2 + (PubY(x)[32] % 2)>> \o x
    ELSE <<4>> \o x \o PubY(x)

CECKey_get_pubkey(secret, compressed) == PubKeyBytes(PubX(secret), compressed)

CPubKey_is_compressed(pub) == Len(pub) = 33

ValidScalar(secret) ==
    \* the curve library's range check: 32 bytes, nonzero, below the order
    /\ Len(secret) = ScalarLen
    /\ \E i \in 1..Len(secret) : secret[i] # 0
    /\ \E i \in 1..Len(secret) : secret[i] # 255

(***************************************************************************)
(* telestai/wallet.py: CKey and CTelestaiSecret.                           *)
(***************************************************************************)
CKey_init(self, secret, compressed) ==
    \* set_secretbytes, set_compressed, self.pub = CPubKey(get_pubkey())
    IF ~ValidScalar(secret) THEN Raise("InvalidScalar")
    ELSE LET pub == CECKey_get_pubkey(secret, compressed)
         IN  Ok([self EXCEPT !.pub = pub,
                             !.compressed = CPubKey_is_compressed(pub)])

CTelestaiSecret_init_NoVersionCheck(self, net) ==
    \* a variant without the comparison of nVersion
    CKey_init(self, Slice(self.data, 0, 32),
              Len(self.data) > 32 /\ self.data[33] = 1)

CTelestaiSecret_init(self, net) ==
    IF self.nVersion # BASE58_PREFIXES(net).SECRET_KEY
    THEN Raise("CTelestaiSecretError")
    ELSE CKey_init(self, Slice(self.data, 0, 32),
                   Len(self.data) > 32 /\ self.data[33] = 1)

from_secret_bytes(secret, compressed, net) ==
    CTelestaiSecret_init(
        CBase58Data_from_bytes("CTelestaiSecret",
                               secret \o (IF compressed THEN <<1>> ELSE <<>>),
                               BASE58_PREFIXES(net).SECRET_KEY),
        net)

CTelestaiSecret_new_AnyVersion(s, net) ==
    \* a variant that builds the key without looking at the version byte
    LET r == CBase58Data_new("CTelestaiSecret", s)
    IN  IF r.err # "" THEN r
        ELSE CKey_init(r.obj, Slice(r.obj.data, 0, 32),
                       Len(r.obj.data) > 32 /\ r.obj.data[33] = 1)

CTelestaiSecret_new(s, net) ==
    \* CTelestaiSecret(s): CBase58Data.__new__, then __init__
    LET r == CBase58Data_new("CTelestaiSecret", s)
    IN  IF r.err # "" THEN r ELSE CTelestaiSecret_init(r.obj, net)

SecretOf(self) == Slice(self.data, 0, 32)

to_wif_payload(self, net) ==
    \* payload = self[:]; if self.is_compressed: payload += b'\x01';
    \* payload = bytes([version_byte]) + payload
    <<BASE58_PREFIXES(net).SECRET_KEY>>
        \o self.data \o (IF self.compressed THEN <<1>> ELSE <<>>)

to_wif(self, net) ==
    LET payload == to_wif_payload(self, net)
    IN  base58_encode(payload \o Slice(double_sha256(payload), 0, 4))

(***************************************************************************)
(* telestai.core.script: opcodes, CScript construction and iteration, the  *)
(* template predicates.  A script is its byte string.                      *)
(***************************************************************************)
OP_0 == 0

OP_DUP == 118

OP_HASH160 == 169

OP_EQUAL == 135

OP_EQUALVERIFY == 136

OP_CHECKSIG == 172

encode_op_pushdata(d) ==
    \* the canonical push of the data d
    IF Len(d) < 76 THEN <<Len(d)>> \o d
    ELSE IF Len(d) <= 255 THEN <<76, Len(d)>> \o d
    ELSE <<77, Len(d) % 256, Len(d) \div 256>> \o d

RECURSIVE Canonicalize(_, _, _)
Canonicalize(s, i, acc) ==
    \* CScript(tuple(s)): iterate the operations of s (0-based position i)
    \* and build the script again, every data push in canonical form.
    IF i >= Len(s) THEN [err |-> "", bytes |-> acc]
    ELSE LET opcode == s[i + 1]
             hdr == CASE opcode < 76 -> 0
                      [] opcode = 76 -> 1
                      [] opcode = 77 -> 2
                      [] opcode = 78 -> 4
                      [] OTHER -> 0
         IN  IF opcode > 78
             THEN Canonicalize(s, i + 1, Append(acc, opcode))
             ELSE IF i + 1 + hdr > Len(s)
             THEN [err |-> "CScriptInvalidError", bytes |-> <<>>]
             ELSE LET datasize ==
                          CASE opcode < 76 -> opcode
                            [] opcode = 76 -> s[i + 2]
                            [] opcode = 77 -> s[i + 2] + 256 * s[i + 3]
                            [] OTHER -> s[i + 2] + 256 * s[i + 3]
                                        + 65536 * s[i + 4]
                                        + 16777216 * s[i + 5]
                      start == i + 1 + hdr
                  IN  IF start + datasize > Len(s)
                      THEN [err |-> "CScriptInvalidError", bytes |-> <<>>]
                      ELSE Canonicalize(
                               s, start + datasize,
                               acc \o encode_op_pushdata(
                                          Slice(s, start, start + datasize)))

is_p2sh(s) ==
    Len(s) = 23 /\ s[1] = OP_HASH160 /\ s[2] = 20 /\ s[23] = OP_EQUAL

is_witness_v0_keyhash(s) == Len(s) = 22 /\ s[1] = 0 /\ s[2] = 20

is_witness_v0_nested_keyhash(s) ==
    Len(s) = 23 /\ s[1] = 22 /\ s[2] = 0 /\ s[3] = 20

is_witness_v0_scripthash(s) == Len(s) = 34 /\ s[1] = 0 /\ s[2] = 32

(***************************************************************************)
(* telestai/wallet.py: the address family.  An address object is           *)
(* [cls, data, nVersion]; for a bech32 address nVersion holds witver.      *)
(***************************************************************************)
CBase58TelestaiAddress_from_bytes_AnyVersion(data, nVersion, net) ==
    \* a variant that takes every version it does not know for P2PKH
    IF nVersion = BASE58_PREFIXES(net).SCRIPT_ADDR
    THEN Ok(CBase58Data_from_bytes("P2SH", data, nVersion))
    ELSE Ok(CBase58Data_from_bytes("P2PKH", data, nVersion))

CBase58TelestaiAddress_from_bytes(data, nVersion, net) ==
    IF nVersion = BASE58_PREFIXES(net).SCRIPT_ADDR
    THEN Ok(CBase58Data_from_bytes("P2SH", data, nVersion))
    ELSE IF nVersion = BASE58_PREFIXES(net).PUBKEY_ADDR
    THEN Ok(CBase58Data_from_bytes("P2PKH", data, nVersion))
    ELSE Raise("CTelestaiAddressError")

P2SH_from_bytes(data, nVersion, net) ==
    \* nVersion = -1 stands for the default None
    IF nVersion # -1 /\ nVersion # BASE58_PREFIXES(net).SCRIPT_ADDR
    THEN Raise("ValueError")
    ELSE CBase58TelestaiAddress_from_bytes(
             data, BASE58_PREFIXES(net).SCRIPT_ADDR, net)

P2PKH_from_bytes(data, nVersion, net) ==
    IF nVersion # -1 /\ nVersion # BASE58_PREFIXES(net).PUBKEY_ADDR
    THEN Raise("ValueError")
    ELSE CBase58TelestaiAddress_from_bytes(
             data, BASE58_PREFIXES(net).PUBKEY_ADDR, net)

CBech32TelestaiAddress_from_bytes(witver, witprog) ==
    IF witver # 0 THEN Raise("AssertionError")
    ELSE IF Len(witprog) = 32
    THEN Ok(CBase58Data_from_bytes("P2WSH", witprog, witver))
    ELSE IF Len(witprog) = 20
    THEN Ok(CBase58Data_from_bytes("P2WPKH", witprog, witver))
    ELSE Raise("CTelestaiAddressError")

is_fullyvalid(pubkey) ==
    \* the curve library accepts the encoding as a point of the curve
    \/ /\ Len(pubkey) = 33
       /\ pubkey = PubKeyBytes(Slice(pubkey, 1, 33), TRUE)
    \/ /\ Len(pubkey) = 65
       /\ pubkey = PubKeyBytes(Slice(pubkey, 1, 33), FALSE)

P2PKH_from_pubkey(pubkey, accept_invalid, net) ==
    IF ~accept_invalid /\ ~is_fullyvalid(pubkey)
    THEN Raise("CTelestaiAddressError")
    ELSE P2PKH_from_bytes(Hash160(pubkey), -1, net)

P2SH_from_scriptPubKey_ShiftedSlice(scriptPubKey, net) ==
    \* a variant that takes the hash one byte late
    IF is_p2sh(scriptPubKey)
    THEN P2SH_from_bytes(Slice(scriptPubKey, 3, 23),
                         BASE58_PREFIXES(net).SCRIPT_ADDR, net)
    ELSE Raise("CTelestaiAddressError")

P2SH_from_scriptPubKey(scriptPubKey, net) ==
    IF is_p2sh(scriptPubKey)
    THEN P2SH_from_bytes(Slice(scriptPubKey, 2, 22),
                         BASE58_PREFIXES(net).SCRIPT_ADDR, net)
    ELSE Raise("CTelestaiAddressError")

BareChecksigPubkey(s) ==
    \* the pubkey variable of the bare-checksig branch; <<>> stands for None
    IF Len(s) = 35 /\ s[1] = 33 /\ s[35] = OP_CHECKSIG
    THEN Slice(s, 1, 34)
    ELSE IF Len(s) = 67 /\ s[1] = 65 /\ s[67] = OP_CHECKSIG
    THEN Slice(s, 1, 65)
    ELSE <<>>

P2PKH_match_NoWitness(s, accept_bare_checksig, net) ==
    \* a variant without the two witness key-hash templates
    LET PUBKEY_ADDR == BASE58_PREFIXES(net).PUBKEY_ADDR
    IN  IF /\ Len(s) = 25
           /\ s[1] = OP_DUP
           /\ s[2] = OP_HASH160
           /\ s[3] = 20
           /\ s[24] = OP_EQUALVERIFY
           /\ s[25] = OP_CHECKSIG
        THEN P2PKH_from_bytes(Slice(s, 3, 23), PUBKEY_ADDR, net)
        ELSE IF accept_bare_checksig /\ BareChecksigPubkey(s) # <<>>
        THEN P2PKH_from_pubkey(BareChecksigPubkey(s), TRUE, net)
        ELSE Raise("CTelestaiAddressError")

P2PKH_match(s, accept_bare_checksig, net) ==
    \* the template chain of P2PKHTelestaiAddress.from_scriptPubKey
    LET PUBKEY_ADDR == BASE58_PREFIXES(net).PUBKEY_ADDR
    IN  IF is_witness_v0_keyhash(s)
        THEN P2PKH_from_bytes(Slice(s, 2, 22), PUBKEY_ADDR, net)
        ELSE IF is_witness_v0_nested_keyhash(s)
        THEN P2PKH_from_bytes(Slice(s, 3, 23), PUBKEY_ADDR, net)
        ELSE IF /\ Len(s) = 25
                /\ s[1] = OP_DUP
                /\ s[2] = OP_HASH160
                /\ s[3] = 20
                /\ s[24] = OP_EQUALVERIFY
                /\ s[25] = OP_CHECKSIG
        THEN P2PKH_from_bytes(Slice(s, 3, 23), PUBKEY_ADDR, net)
        ELSE IF accept_bare_checksig /\ BareChecksigPubkey(s) # <<>>
        THEN P2PKH_from_pubkey(BareChecksigPubkey(s), TRUE, net)
        ELSE Raise("CTelestaiAddressError")

P2PKH_from_scriptPubKey_Uncaught(scriptPubKey, accept_non_canonical_pushdata, accept_bare_checksig, net) ==
    \* a variant that lets the script library's error through
    IF accept_non_canonical_pushdata
    THEN LET c == Canonicalize(scriptPubKey, 0, <<>>)
         IN  IF c.err # "" THEN Raise(c.err)
             ELSE P2PKH_match(c.bytes, accept_bare_checksig, net)
    ELSE P2PKH_match(scriptPubKey, accept_bare_checksig, net)

P2PKH_from_scriptPubKey(scriptPubKey, accept_non_canonical_pushdata, accept_bare_checksig, net) ==
    IF accept_non_canonical_pushdata
    THEN LET c == Canonicalize(scriptPubKey, 0, <<>>)
         IN  IF c.err # "" THEN Raise("CTelestaiAddressError")
             ELSE P2PKH_match(c.bytes, accept_bare_checksig, net)
    ELSE P2PKH_match(scriptPubKey, accept_bare_checksig, net)

P2WSH_from_scriptPubKey(scriptPubKey) ==
    IF is_witness_v0_scripthash(scriptPubKey)
    THEN CBech32TelestaiAddress_from_bytes(0, Slice(scriptPubKey, 2, 34))
    ELSE Raise("CTelestaiAddressError")

P2WPKH_from_scriptPubKey(scriptPubKey) ==
    IF is_witness_v0_keyhash(scriptPubKey)
    THEN CBech32TelestaiAddress_from_bytes(0, Slice(scriptPubKey, 2, 22))
    ELSE Raise("CTelestaiAddressError")

OrElse(first, second) ==
    \* try: return first / except CTelestaiAddressError: pass / then second
    IF first.err = "CTelestaiAddressError" THEN second ELSE first

CBech32TelestaiAddress_from_scriptPubKey(scriptPubKey) ==
    OrElse(P2WSH_from_scriptPubKey(scriptPubKey),
           OrElse(P2WPKH_from_scriptPubKey(scriptPubKey),
                  Raise("CTelestaiAddressError")))

CBase58TelestaiAddress_from_scriptPubKey(scriptPubKey, net) ==
    OrElse(P2SH_from_scriptPubKey(scriptPubKey, net),
           OrElse(P2PKH_from_scriptPubKey(scriptPubKey, TRUE, TRUE, net),
                  Raise("CTelestaiAddressError")))

CTelestaiAddress_from_scriptPubKey_Bech32First(scriptPubKey, net) ==
    \* a variant in which the bech32 attempt is made, and made first
    OrElse(CBech32TelestaiAddress_from_scriptPubKey(scriptPubKey),
           OrElse(CBase58TelestaiAddress_from_scriptPubKey(scriptPubKey, net),
                  Raise("CTelestaiAddressError")))

CTelestaiAddress_from_scriptPubKey(scriptPubKey, net) ==
    \* the bech32 attempt is commented out in the source
    OrElse(CBase58TelestaiAddress_from_scriptPubKey(scriptPubKey, net),
           Raise("CTelestaiAddressError"))

CBase58TelestaiAddress_new(s, net) ==
    \* CBase58Data.__new__: decode, verify the checksum, cls.from_bytes
    LET r == CBase58Data_new("CBase58TelestaiAddress", s)
    IN  IF r.err # "" THEN r
        ELSE CBase58TelestaiAddress_from_bytes(r.obj.data, r.obj.nVersion, net)

CTelestaiAddress_new_Uncaught(s, net) ==
    \* a variant without the try / except around CBase58TelestaiAddress(s)
    CBase58TelestaiAddress_new(s, net)

CTelestaiAddress_new(s, net) ==
    \* try CBase58TelestaiAddress(s) / except Base58Error: pass / raise
    LET r == CBase58TelestaiAddress_new(s, net)
    IN  IF IsBase58Error(r.err) THEN Raise("CTelestaiAddressError") ELSE r

to_scriptPubKey_NoAssert(self, net) ==
    \* a variant without the assertions on nVersion
    CASE self.cls = "P2SH" ->
           [err |-> "",
            bytes |-> <<OP_HASH160>> \o encode_op_pushdata(self.data)
                      \o <<OP_EQUAL>>]
      [] self.cls = "P2PKH" ->
           [err |-> "",
            bytes |-> <<OP_DUP, OP_HASH160>> \o encode_op_pushdata(self.data)
                      \o <<OP_EQUALVERIFY, OP_CHECKSIG>>]
      [] self.cls \in {"P2WSH", "P2WPKH"} ->
           [err |-> "", bytes |-> <<OP_0>> \o encode_op_pushdata(self.data)]
      [] OTHER -> [err |-> "AttributeError", bytes |-> <<>>]

to_scriptPubKey(self, net) ==
    \* [err, bytes]: the script of the address, or the failed assertion
    CASE self.cls = "P2SH" ->
           IF self.nVersion # BASE58_PREFIXES(net).SCRIPT_ADDR
           THEN [err |-> "AssertionError", bytes |-> <<>>]
           ELSE [err |-> "",
                 bytes |-> <<OP_HASH160>> \o encode_op_pushdata(self.data)
                           \o <<OP_EQUAL>>]
      [] self.cls = "P2PKH" ->
           IF self.nVersion # BASE58_PREFIXES(net).PUBKEY_ADDR
           THEN [err |-> "AssertionError", bytes |-> <<>>]
           ELSE [err |-> "",
                 bytes |-> <<OP_DUP, OP_HASH160>>
                           \o encode_op_pushdata(self.data)
                           \o <<OP_EQUALVERIFY, OP_CHECKSIG>>]
      [] self.cls \in {"P2WSH", "P2WPKH"} ->
           IF self.nVersion # 0
           THEN [err |-> "AssertionError", bytes |-> <<>>]
           ELSE [err |-> "",
                 bytes |-> <<OP_0>> \o encode_op_pushdata(self.data)]
      [] OTHER -> [err |-> "AttributeError", bytes |-> <<>>]

(***************************************************************************)
(* base64 as signmessage.py uses it: b64encode, and b64decode in its       *)
(* default non-validating mode (characters outside the alphabet are        *)
(* skipped, a missing padding is an error).                                *)
(***************************************************************************)
B64_DIGITS ==
    <<"A", "B", "C", "D", "E", "F", "G", "H", "I", "J", "K", "L", "M",
      "N", "O", "P", "Q", "R", "S", "T", "U", "V", "W", "X", "Y", "Z",
      "a", "b", "c", "d", "e", "f", "g", "h", "i", "j", "k", "l", "m",
      "n", "o", "p", "q", "r", "s", "t", "u", "v", "w", "x", "y", "z",
      "0", "1", "2", "3", "4", "5", "6", "7", "8", "9", "+", "/">>

B64Chars == {B64_DIGITS[i] : i \in 1..64}

B64Value(c) == (CHOOSE i \in 1..64 : B64_DIGITS[i] = c) - 1

At(b, i) == IF i <= Len(b) THEN b[i] ELSE 0

b64encode(b) ==
    \* three bytes give four characters; "=" fills the last group
    [c \in 1..(4 * ((Len(b) + 2) \div 3)) |->
        LET g == (c - 1) \div 4
            j == (c - 1) % 4
            n == At(b, 3 * g + 1) * 65536 + At(b, 3 * g + 2) * 256
                 + At(b, 3 * g + 3)
            left == Len(b) - 3 * g
        IN  IF (j = 2 /\ left < 2) \/ (j = 3 /\ left < 3) THEN "="
            ELSE CASE j = 0 -> B64_DIGITS[(n \div 262144) + 1]
                   [] j = 1 -> B64_DIGITS[((n \div 4096) % 64) + 1]
                   [] j = 2 -> B64_DIGITS[((n \div 64) % 64) + 1]
                   [] OTHER -> B64_DIGITS[(n % 64) + 1]]

IsB64Data(c) == c \in B64Chars

IsB64Char(c) == c \in B64Chars \/ c = "="

B64Scan(s) ==
    \* The data characters of s up to its end or to a complete padding.
    \* Characters outside the alphabet are skipped; a "=" ends the input
    \* when it completes the quad (after three data characters, or as the
    \* second "=" after two).
    LET f == SelectSeq(s, IsB64Char)
        quad_pos(p) == Cardinality({j \in 1..(p - 1) : f[j] # "="}) % 4
        stops == {p \in 1..Len(f) :
                     /\ f[p] = "="
                     /\ \/ quad_pos(p) = 3
                        \/ quad_pos(p) = 2 /\ p > 1 /\ f[p - 1] = "="}
        stop == IF stops = {} THEN Len(f) + 1
                ELSE CHOOSE p \in stops : \A q \in stops : p <= q
        data == SelectSeq(SubSeq(f, 1, stop - 1), IsB64Data)
    IN  [err |-> IF stops = {} /\ Len(data) % 4 # 0
                 THEN "binascii.Error" ELSE "",
         data |-> data]

B64Bytes(data) ==
    \* four data characters give three bytes, two give one, three give two
    LET vals == [i \in 1..Len(data) |-> B64Value(data[i])]
        tail == Len(vals) % 4
        n == 3 * (Len(vals) \div 4)
             + (IF tail = 2 THEN 1 ELSE IF tail = 3 THEN 2 ELSE 0)
    IN  [k \in 1..n |->
            LET g == (k - 1) \div 3
                j == (k - 1) % 3
                w == At(vals, 4 * g + 1) * 262144 + At(vals, 4 * g + 2) * 4096
                     + At(vals, 4 * g + 3) * 64 + At(vals, 4 * g + 4)
            IN  CASE j = 0 -> w \div 65536
                  [] j = 1 -> (w \div 256) % 256
                  [] OTHER -> w % 256]

b64decode(s) ==
    LET r == B64Scan(s)
    IN  IF r.err # "" THEN [err |-> r.err, bytes |-> <<>>]
        ELSE [err |-> "", bytes |-> B64Bytes(r.data)]

(***************************************************************************)
(* telestai/signmessage.py: TelestaiMessage.                               *)
(***************************************************************************)
MessageMagic ==
    \* "Telestai Signed Message:\n"
    <<84, 101, 108, 101, 115, 116, 97, 105, 32, 83, 105, 103, 110, 101,
      100, 32, 77, 101, 115, 115, 97, 103, 101, 58, 10>>

BytesSerializer(b) ==
    \* compact-size length prefix, then the bytes
    IF Len(b) < 253 THEN <<Len(b)>> \o b
    ELSE <<253, Len(b) % 256, Len(b) \div 256>> \o b

TelestaiMessage_serialize(message) ==
    BytesSerializer(MessageMagic) \o BytesSerializer(message)

GetHash(message) == double_sha256(TelestaiMessage_serialize(message))

(***************************************************************************)
(* telestai.core.key: compact signatures.  A signature is R (32 bytes)     *)
(* followed by S (32 bytes); the recovery id is carried by the two low     *)
(* bits of R's last byte, S binds the public key to the signed hash, and   *)
(* recovery with another recovery id yields another point.                 *)
(***************************************************************************)
RecIds == 0..3

sign_compact(secret, hash, recid) ==
    \* (sig, i): recid is the id the curve arithmetic turns out for the nonce
    LET r0 == Digest(7, secret \o hash, 32)
        x == PubX(secret)
        R == [r0 EXCEPT ![32] = (r0[32] - (r0[32] % 4)) + recid]
        S == [i \in 1..32 |-> (x[i] + hash[i]) % 256]
    IN  [sig |-> R \o S, i |-> recid]

CECKey_recover(sigR, sigS, hash, recid) ==
    \* the x coordinate of the recovered point; <<>> when there is none
    IF (\A i \in 1..32 : sigR[i] = 0) \/ (\A i \in 1..32 : sigS[i] = 0)
    THEN <<>>
    ELSE LET shift == (recid - (sigR[32] % 4)) % 4
         IN  [i \in 1..32 |-> (sigS[i] - hash[i] + shift * i) % 256]

recover_compact(hash, sig) ==
    \* [err, pub]
    IF Len(sig) # 65 THEN [err |-> "ValueError", pub |-> <<>>]
    ELSE IF sig[1] < 27 \/ sig[1] > 34
    THEN [err |-> "InvalidHeaderByte", pub |-> <<>>]
    ELSE LET recid == (sig[1] - 27) % 4
             compressed == sig[1] >= 31
             x == CECKey_recover(Slice(sig, 1, 33), Slice(sig, 33, 65),
                                 hash, recid)
         IN  IF x = <<>> THEN [err |-> "RecoveryFailed", pub |-> <<>>]
             ELSE [err |-> "", pub |-> PubKeyBytes(x, compressed)]

UPPER ==
    <<"A", "B", "C", "D", "E", "F", "G", "H", "I", "J", "K", "L", "M",
      "N", "O", "P", "Q", "R", "S", "T", "U", "V", "W", "X", "Y", "Z">>

LOWER ==
    <<"a", "b", "c", "d", "e", "f", "g", "h", "i", "j", "k", "l", "m",
      "n", "o", "p", "q", "r", "s", "t", "u", "v", "w", "x", "y", "z">>

SwapCase(c) ==
    IF \E i \in 1..26 : UPPER[i] = c
    THEN LOWER[CHOOSE i \in 1..26 : UPPER[i] = c]
    ELSE IF \E i \in 1..26 : LOWER[i] = c
    THEN UPPER[CHOOSE i \in 1..26 : LOWER[i] = c]
    ELSE c

(***************************************************************************)
(* telestai/signmessage.py: SignMessage and VerifyMessage.                 *)
(***************************************************************************)
SignMessageBytes_NoCompressedFlag(key, message, recid) ==
    \* SignMessageBytes without "if key.is_compressed: meta += 4"
    LET s == sign_compact(SecretOf(key), GetHash(message), recid)
    IN  <<27 + s.i>> \o s.sig

SignMessageBytes(key, message, recid) ==
    \* meta = 27 + i; if key.is_compressed: meta += 4; _bchr(meta) + sig
    LET s == sign_compact(SecretOf(key), GetHash(message), recid)
        meta == 27 + s.i + (IF key.compressed THEN 4 ELSE 0)
    IN  <<meta>> \o s.sig

SignMessage(key, message, recid) ==
    b64encode(SignMessageBytes(key, message, recid))

LowerCase(s) ==
    [i \in 1..Len(s) |->
        IF \E k \in 1..26 : UPPER[k] = s[i]
        THEN LOWER[CHOOSE k \in 1..26 : UPPER[k] = s[i]] ELSE s[i]]

VerifyMessage_IgnoreCase(address, message, sig, net) ==
    \* VerifyMessage comparing the two texts without regard to case
    LET raw == b64decode(sig)
        rec == recover_compact(GetHash(message), raw.bytes)
        a == P2PKH_from_pubkey(rec.pub, FALSE, net)
    IN  IF raw.err # "" THEN [err |-> raw.err, val |-> FALSE]
        ELSE IF rec.err # "" THEN [err |-> rec.err, val |-> FALSE]
        ELSE IF a.err # "" THEN [err |-> a.err, val |-> FALSE]
        ELSE [err |-> "",
              val |-> LowerCase(CBase58Data_str(a.obj)) = LowerCase(address)]

VerifyMessage(address, message, sig, net) ==
    \* [err, val]; address is the claimed address as text
    LET raw == b64decode(sig)
    IN  IF raw.err # "" THEN [err |-> raw.err, val |-> FALSE]
        ELSE LET rec == recover_compact(GetHash(message), raw.bytes)
             IN  IF rec.err # "" THEN [err |-> rec.err, val |-> FALSE]
                 ELSE LET a == P2PKH_from_pubkey(rec.pub, FALSE, net)
                      IN  IF a.err # "" THEN [err |-> a.err, val |-> FALSE]
                          ELSE [err |-> "",
                                val |-> CBase58Data_str(a.obj) = address]

(***************************************************************************)
(* The state.  The program holds the active parameters (telestai.params    *)
(* and telestai.core.coreparams) and the object it last constructed; op,   *)
(* arg and out record the last call, its inputs and what it returned or    *)
(* raised.                                                                 *)
(***************************************************************************)
VARIABLES params, coreparams, selecting, obj, made, madeUnder, tx, op, arg, out

vars == <<params, coreparams, selecting, obj, made, madeUnder, tx, op, arg, out>>

NoArg == [text |-> <<>>, bytes |-> <<>>, sig |-> <<>>, flag |-> FALSE,
          num |-> 0, obj |-> NoObj, list |-> <<>>]

NoOut == [err |-> "", text |-> <<>>, bytes |-> <<>>, val |-> FALSE,
          obj |-> NoObj, list |-> <<>>, num |-> 0]

\* the transaction the program holds: two inputs whose unlocking scripts
\* are still empty, and one output
UnsignedTx ==
    [vin  |-> <<[prevout |-> 1, scriptSig |-> <<>>],
                [prevout |-> 2, scriptSig |-> <<>>]>>,
     vout |-> <<[nValue |-> 5, scriptPubKey |-> <<>>]>>]

Init ==
    /\ params = "mainnet"
    /\ coreparams = "mainnet"
    /\ obj = NoObj
    /\ made = "none"
    /\ madeUnder = "mainnet"
    /\ selecting = ""
    /\ tx = UnsignedTx
    /\ op = "init"
    /\ arg = NoArg
    /\ out = NoOut

(***************************************************************************)
(* Inputs.                                                                 *)
(***************************************************************************)
VectorAddr ==
    <<"R", "L", "5", "d", "K", "Q", "v", "7", "Z", "Z", "Y", "r", "q",
      "S", "Y", "X", "N", "V", "g", "y", "2", "H", "v", "n", "c", "j",
      "c", "Q", "f", "8", "G", "6", "a", "t">>

VectorWif ==
    <<"L", "1", "g", "V", "Q", "S", "m", "A", "J", "D", "n", "k", "K",
      "1", "A", "1", "V", "3", "m", "J", "e", "h", "L", "9", "x", "Q",
      "b", "d", "a", "i", "9", "C", "C", "x", "6", "5", "d", "2", "9",
      "s", "e", "R", "F", "G", "V", "V", "h", "e", "y", "n", "g", "q">>

VectorMessage ==
    \* the bytes of the text of VectorAddr
    <<82, 76, 53, 100, 75, 81, 118, 55, 90, 90, 89, 114, 113, 83, 89,
      88, 78, 86, 103, 121, 50, 72, 118, 110, 99, 106, 99, 81, 102, 56,
      71, 54, 97, 116>>

Message(seed) == Pattern(seed, 4 + seed)

Messages == {Message(1), VectorMessage}

SwapFirstLetter(s) ==
    \* s with the case of its first letter changed
    LET letters == {i \in 1..Len(s) : SwapCase(s[i]) # s[i]}
    IN  IF letters = {} THEN s
        ELSE LET k == CHOOSE i \in letters : \A j \in letters : i <= j
             IN  [s EXCEPT ![k] = SwapCase(s[k])]

ReplaceLast(s, c) == [s EXCEPT ![Len(s)] = c]

OwnAddress(key, net) ==
    \* str(P2PKHTelestaiAddress.from_pubkey(key.pub))
    CBase58Data_str(P2PKH_from_pubkey(key.pub, FALSE, net).obj)

BadSignatures ==
    \* not base64 (padding missing); 64 bytes; header 26; header 35;
    \* nothing to recover
    { Slice(b64encode(Pattern(1, 65)), 0, 87),
      b64encode(Pattern(1, 64)),
      b64encode(<<26>> \o Pattern(1, 64)),
      b64encode(<<35>> \o Pattern(1, 64)),
      b64encode(<<31>> \o Pattern(1, 32) \o Repeat(0, 32)) }

(***************************************************************************)
(* Actions on keys and messages.                                           *)
(***************************************************************************)
SelectParams_ResetOnError(name) ==
    \* a variant that falls back to mainnet before it reports the error
    /\ op' = "SelectParams"
    /\ arg' = [NoArg EXCEPT !.text = <<name>>]
    /\ IF name \in Networks
       THEN /\ params' = name
            /\ coreparams' = name
            /\ out' = NoOut
       ELSE /\ params' = "mainnet"
            /\ coreparams' = "mainnet"
            /\ out' = [NoOut EXCEPT !.err = "ValueError"]
    /\ UNCHANGED <<selecting, obj, made, madeUnder, tx>>

SelectParams_ParamsOnly(name) ==
    \* a variant that leaves telestai.core.coreparams alone
    /\ op' = "SelectParams"
    /\ arg' = [NoArg EXCEPT !.text = <<name>>]
    /\ IF name \in Networks
       THEN /\ params' = name
            /\ out' = NoOut
       ELSE /\ UNCHANGED params
            /\ out' = [NoOut EXCEPT !.err = "ValueError"]
    /\ UNCHANGED <<coreparams, selecting, obj, made, madeUnder, tx>>

SelectParams(name) ==
    \* _SelectCoreParams(name), then the if / elif chain
    /\ op' = "SelectParams"
    /\ arg' = [NoArg EXCEPT !.text = <<name>>]
    /\ IF name \in Networks
       THEN /\ params' = name
            /\ coreparams' = name
            /\ out' = NoOut
       ELSE /\ UNCHANGED <<params, coreparams>>
            /\ out' = [NoOut EXCEPT !.err = "ValueError"]
    /\ UNCHANGED <<selecting, obj, made, madeUnder, tx>>

Construct(name, a, r) ==
    \* a constructor call: the program holds the new object when it succeeds
    /\ op' = name
    /\ arg' = a
    /\ out' = [NoOut EXCEPT !.err = r.err, !.obj = r.obj]
    /\ IF r.err = "" THEN obj' = r.obj /\ made' = name /\ madeUnder' = params
       ELSE UNCHANGED <<obj, made, madeUnder>>
    /\ UNCHANGED <<params, coreparams, selecting, tx>>

FromSecretBytes(seed, compressed) ==
    Construct("from_secret_bytes",
              [NoArg EXCEPT !.bytes = Pattern(seed, ScalarLen),
                            !.flag = compressed],
              from_secret_bytes(Pattern(seed, ScalarLen), compressed, params))

WifInputs ==
    {VectorWif, ReplaceLast(VectorWif, "r"), ReplaceLast(VectorWif, "0")}
        \cup (IF op = "to_wif" THEN {out.text} ELSE {})

DecodeWif(s) ==
    \* CTelestaiSecret(s)
    Construct("CTelestaiSecret", [NoArg EXCEPT !.text = s, !.obj = obj],
              CTelestaiSecret_new(s, params))

AddressInputs ==
    {VectorAddr, ReplaceLast(VectorAddr, "u")}
        \cup (IF obj.cls = "CTelestaiSecret"
              THEN {OwnAddress(obj, params)} ELSE {})

DecodeAddress(s) ==
    \* CTelestaiAddress(s)
    Construct("CTelestaiAddress", [NoArg EXCEPT !.text = s, !.obj = obj],
              CTelestaiAddress_new(s, params))

ToWif ==
    \* (keys longer than MaxKeyBytes are not encoded again)
    /\ obj.cls = "CTelestaiSecret"
    /\ Len(obj.data) < MaxKeyBytes
    /\ op' = "to_wif"
    /\ arg' = [NoArg EXCEPT !.obj = obj]
    /\ out' = [NoOut EXCEPT !.text = to_wif(obj, params),
                            !.bytes = to_wif_payload(obj, params)]
    /\ UNCHANGED <<params, coreparams, selecting, obj, made, madeUnder, tx>>

DoSignMessage(message, recid) ==
    /\ obj.cls = "CTelestaiSecret"
    /\ op' = "SignMessage"
    /\ arg' = [NoArg EXCEPT !.bytes = message, !.obj = obj, !.num = recid]
    /\ out' = [NoOut EXCEPT !.text = SignMessage(obj, message, recid),
                            !.bytes = SignMessageBytes(obj, message, recid)]
    /\ UNCHANGED <<params, coreparams, selecting, obj, made, madeUnder, tx>>

DoVerifyMessage(address, message, sig) ==
    /\ op' = "VerifyMessage"
    /\ arg' = [NoArg EXCEPT !.text = address, !.bytes = message,
                            !.sig = sig, !.obj = obj]
    /\ LET r == VerifyMessage(address, message, sig, params)
       IN  out' = [NoOut EXCEPT !.err = r.err, !.val = r.val]
    /\ UNCHANGED <<params, coreparams, selecting, obj, made, madeUnder, tx>>

VerifyAfterSign ==
    \* verify the signature just made: against the signer's address, the
    \* same text in another case and the address of the test-suite, and
    \* for another message
    /\ op = "SignMessage"
    /\ LET own == OwnAddress(obj, params)
       IN  \/ \E address \in {own, SwapFirstLetter(own), VectorAddr} :
                 DoVerifyMessage(address, arg.bytes, out.text)
           \/ \E message \in Messages \ {arg.bytes} :
                 DoVerifyMessage(own, message, out.text)

VerifyBadSignature ==
    /\ obj.cls = "CTelestaiSecret"
    /\ LET own == OwnAddress(obj, params)
       IN  \E sig \in BadSignatures : DoVerifyMessage(own, Message(1), sig)

SelectNames ==
    \* the names selected in the runs on keys and on scripts: two networks
    \* with different tables and a name that is not a network (regtest,
    \* whose version bytes are those of testnet, is selected under SpecNet)
    {"mainnet", "testnet", "signet"}

NextKey ==
    \/ \E name \in SelectNames : SelectParams(name)
    \/ \E seed \in Seeds, compressed \in BOOLEAN :
          FromSecretBytes(seed, compressed)
    \/ \E s \in WifInputs : DecodeWif(s)
    \/ \E s \in AddressInputs : DecodeAddress(s)
    \/ ToWif
    \/ \E message \in Messages, recid \in RecIds :
          DoSignMessage(message, recid)
    \/ VerifyAfterSign
    \/ VerifyBadSignature

Spec == Init /\ [][NextKey]_vars

(***************************************************************************)
(* Claims about keys, WIF strings and signed messages (checked under Spec) *)
(***************************************************************************)
ActiveSecretVersion == BASE58_PREFIXES(params).SECRET_KEY

WifPayloadOf(text) ==
    \* what a WIF string encodes, without its 4 checksum bytes
    LET k == base58_decode(text) IN Slice(k, 0, Len(k) - 4)

WifChecksumOf(text) ==
    LET k == base58_decode(text) IN Slice(k, Len(k) - 4, Len(k))

\* C1: decoding the string to_wif() returns for a key built by
\* from_secret_bytes(s, compressed), with the network unchanged, yields a
\* key with the same scalar, the same compressed flag and the same bytes.
C1_WifRoundTrip ==
    [][ ( /\ op = "to_wif"
          /\ made = "from_secret_bytes"
          /\ obj.nVersion = ActiveSecretVersion
          /\ op' = "CTelestaiSecret"
          /\ arg'.text = out.text )
        => ( /\ out'.err = ""
             /\ SecretOf(out'.obj) = SecretOf(obj)
             /\ out'.obj.compressed = obj.compressed
             /\ out'.obj.data = obj.data ) ]_vars

\* C2: to_wif() encodes secret_key_version ++ scalar ++ (0x01 if compressed)
\* followed by the 4-byte checksum: 34 bytes before the checksum for a
\* compressed key, 33 for an uncompressed one, for keys built by
\* from_secret_bytes and for keys decoded from a WIF string.
C2_WifLayout ==
    (op = "to_wif" /\ Len(arg.obj.data) <= ScalarLen + 1)
    => LET expected == <<ActiveSecretVersion>> \o SecretOf(arg.obj)
                       \o (IF arg.obj.compressed THEN <<1>> ELSE <<>>)
       IN  /\ WifPayloadOf(out.text) = expected
           /\ Len(WifPayloadOf(out.text))
                = (IF arg.obj.compressed THEN 34 ELSE 33)
           /\ WifChecksumOf(out.text) = Slice(double_sha256(expected), 0, 4)

SignedBy(key, message) ==
    {SignMessage(key, message, recid) : recid \in RecIds}

\* C3: VerifyMessage(addr, msg, SignMessage(key, msg)) is true whenever addr
\* is the P2PKH address of key.pub, for compressed and uncompressed keys and
\* for every recovery id the signer returns.
C3_SignThenVerify ==
    ( /\ op = "VerifyMessage"
      /\ arg.obj.cls = "CTelestaiSecret"
      /\ arg.sig \in SignedBy(arg.obj, arg.bytes)
      /\ arg.text = OwnAddress(arg.obj, params) )
    => (out.err = "" /\ out.val)

C3_Witness ==
    /\ op = "VerifyMessage"
    /\ arg.obj.cls = "CTelestaiSecret"
    /\ ~arg.obj.compressed
    /\ arg.sig = SignMessage(arg.obj, arg.bytes, 3)
    /\ arg.text = OwnAddress(arg.obj, params)
    /\ out.val

\* C4: VerifyMessage never propagates an error: for a signature that is not
\* valid base64, does not decode to 65 bytes, has a header byte outside
\* [27,34] or yields no public key, it returns false.
C4_VerifyNeverRaises ==
    op = "VerifyMessage" => (out.err = "" /\ (arg.sig \in BadSignatures => ~out.val))

RecoveredAddress ==
    \* the text of the P2PKH address, under the active network, of the key
    \* recovered from the signature of the last VerifyMessage call
    LET pub == recover_compact(GetHash(arg.bytes), b64decode(arg.sig).bytes).pub
        vs == <<BASE58_PREFIXES(params).PUBKEY_ADDR>> \o Hash160(pub)
    IN  base58_encode(vs \o Slice(double_sha256(vs), 0, 4))

\* C5: VerifyMessage returns true if and only if the text of the P2PKH
\* address of the recovered public key is exactly, case-sensitively, the
\* text of the claimed address; a signature whose recovered key hashes to
\* another address never verifies.
C5_VerifyIffSameText ==
    (op = "VerifyMessage" /\ out.err = "")
    => /\ out.val <=> (arg.text = RecoveredAddress)
       /\ out.val =>
            LET claimed == CBase58Data_new("CBase58TelestaiAddress", arg.text)
                pub == recover_compact(GetHash(arg.bytes),
                                       b64decode(arg.sig).bytes).pub
            IN  /\ claimed.err = ""
                /\ claimed.obj.data = Hash160(pub)
                /\ claimed.obj.nVersion = BASE58_PREFIXES(params).PUBKEY_ADDR

C5_Witness ==
    \* the claimed text differs from the recovered address by case only
    /\ op = "VerifyMessage"
    /\ out.err = ""
    /\ ~out.val
    /\ arg.text # RecoveredAddress
    /\ SwapFirstLetter(arg.text) = RecoveredAddress

VectorKey == CTelestaiSecret_new(VectorWif, "mainnet").obj

\* C6: under mainnet parameters "RL5dKQv7ZZYrqSYXNVgy2HvncjcQf8G6at" is
\* accepted and classified as P2PKH, re-encoding its hash with the mainnet
\* pubkey-address version gives the same string, and a signature made with
\* the key of "L1gVQSmAJDnkK1A1V3mJehL9xQbdai9CCx65d29seRFGVVheyngq" over
\* that string verifies against that address.
C6_VectorScenario ==
    /\ (op = "CTelestaiAddress" /\ arg.text = VectorAddr /\ params = "mainnet")
       => /\ out.err = ""
          /\ out.obj.cls = "P2PKH"
          /\ out.obj.nVersion = MainParams.PUBKEY_ADDR
          /\ CBase58Data_str(
                 P2PKH_from_bytes(out.obj.data, MainParams.PUBKEY_ADDR,
                                  "mainnet").obj) = VectorAddr
    /\ ( /\ op = "VerifyMessage"
         /\ params = "mainnet"
         /\ arg.text = VectorAddr
         /\ arg.bytes = VectorMessage
         /\ arg.obj = VectorKey
         /\ arg.sig \in SignedBy(VectorKey, VectorMessage) )
       => (out.err = "" /\ out.val)

(***************************************************************************)
(* Actions on addresses and scripts.                                       *)
(***************************************************************************)
HashLen == 20

Versions ==
    \* the version bytes of the three networks, and the one the address of
    \* the test-suite carries
    {MainParams.PUBKEY_ADDR, MainParams.SCRIPT_ADDR,
     TestNetParams.PUBKEY_ADDR, TestNetParams.SCRIPT_ADDR,
     VectorAddrPayload[1]}

FromBytes(data, nVersion) ==
    \* CBase58TelestaiAddress.from_bytes(data, nVersion)
    Construct("from_bytes",
              [NoArg EXCEPT !.bytes = data, !.num = nVersion],
              CBase58TelestaiAddress_from_bytes(data, nVersion, params))

ToScriptPubKey ==
    /\ obj.cls \in {"P2PKH", "P2SH", "P2WSH", "P2WPKH"}
    /\ op' = "to_scriptPubKey"
    /\ arg' = [NoArg EXCEPT !.obj = obj]
    /\ LET r == to_scriptPubKey(obj, params)
       IN  out' = [NoOut EXCEPT !.err = r.err, !.bytes = r.bytes]
    /\ UNCHANGED <<params, coreparams, selecting, obj, made, madeUnder, tx>>

PubKeys ==
    {CECKey_get_pubkey(Pattern(seed, ScalarLen), compressed) :
        seed \in Seeds, compressed \in BOOLEAN}

BareChecksigScript(pubkey) == <<Len(pubkey)>> \o pubkey \o <<OP_CHECKSIG>>

InvalidScripts ==
    \* OP_PUSHDATA1 without its length byte, OP_PUSHDATA2 with half of its
    \* length, OP_PUSHDATA4 whose data is missing
    { <<OP_DUP, 76>>, <<77, 5>>, <<78, 1, 0, 0, 0>> }

ScriptInputs ==
    UNION {{ <<OP_0, 32>> \o Pattern(seed, 32),
             <<OP_0, HashLen>> \o Pattern(seed, HashLen),
             <<22, OP_0, HashLen>> \o Pattern(seed, HashLen),
             \* a P2PKH script whose push uses OP_PUSHDATA1
             <<OP_DUP, OP_HASH160, 76, HashLen>> \o Pattern(seed, HashLen)
                 \o <<OP_EQUALVERIFY, OP_CHECKSIG>>,
             \* a push that runs past the end of the script
             <<OP_DUP, OP_HASH160, HashLen>> \o Pattern(seed, 2) }
           : seed \in Seeds}
        \cup {BareChecksigScript(pubkey) : pubkey \in PubKeys}
        \cup InvalidScripts
        \cup (IF op = "to_scriptPubKey" /\ out.err = ""
              THEN {out.bytes} ELSE {})

FromScriptPubKey(scriptPubKey) ==
    \* CTelestaiAddress.from_scriptPubKey(scriptPubKey)
    Construct("from_scriptPubKey",
              [NoArg EXCEPT !.bytes = scriptPubKey, !.obj = obj],
              CTelestaiAddress_from_scriptPubKey(scriptPubKey, params))

P2PKHFromScriptPubKey(scriptPubKey, accept_non_canonical_pushdata, accept_bare_checksig) ==
    Construct("P2PKH.from_scriptPubKey",
              [NoArg EXCEPT !.bytes = scriptPubKey,
                            !.flag = accept_bare_checksig,
                            !.num = IF accept_non_canonical_pushdata
                                    THEN 1 ELSE 0],
              P2PKH_from_scriptPubKey(scriptPubKey,
                                      accept_non_canonical_pushdata,
                                      accept_bare_checksig, params))

P2WSHFromScriptPubKey(scriptPubKey) ==
    Construct("P2WSH.from_scriptPubKey",
              [NoArg EXCEPT !.bytes = scriptPubKey],
              P2WSH_from_scriptPubKey(scriptPubKey))

P2WPKHFromScriptPubKey(scriptPubKey) ==
    Construct("P2WPKH.from_scriptPubKey",
              [NoArg EXCEPT !.bytes = scriptPubKey],
              P2WPKH_from_scriptPubKey(scriptPubKey))

NextAddr ==
    \/ \E name \in SelectNames : SelectParams(name)
    \/ \E seed \in Seeds, nVersion \in Versions :
          FromBytes(Pattern(seed, HashLen), nVersion)
    \/ ToScriptPubKey
    \/ \E scriptPubKey \in ScriptInputs : FromScriptPubKey(scriptPubKey)
    \/ \E scriptPubKey \in ScriptInputs, c \in BOOLEAN, b \in BOOLEAN :
          P2PKHFromScriptPubKey(scriptPubKey, c, b)
    \/ \E scriptPubKey \in ScriptInputs : P2WSHFromScriptPubKey(scriptPubKey)
    \/ \E scriptPubKey \in ScriptInputs : P2WPKHFromScriptPubKey(scriptPubKey)

SpecAddr == Init /\ [][NextAddr]_vars

(***************************************************************************)
(* Claims about addresses and scripts (checked under SpecAddr).            *)
(***************************************************************************)
VariantOf(nVersion, net) ==
    IF nVersion = BASE58_PREFIXES(net).PUBKEY_ADDR THEN "P2PKH"
    ELSE IF nVersion = BASE58_PREFIXES(net).SCRIPT_ADDR THEN "P2SH"
    ELSE "none"

\* C7: for a P2PKH or P2SH address built by from_bytes(h, version_of(V))
\* from a 20-byte hash h, with the network unchanged, to_scriptPubKey()
\* succeeds and CTelestaiAddress.from_scriptPubKey of that script is an
\* address of the same variant V carrying the same hash h.
C7_ScriptRoundTrip ==
    [][ ( /\ op = "to_scriptPubKey"
          /\ made = "from_bytes"
          /\ Len(obj.data) = HashLen
          /\ VariantOf(obj.nVersion, params) = obj.cls )
        => ( /\ out.err = ""
             /\ ( /\ op' = "from_scriptPubKey"
                  /\ arg'.bytes = out.bytes
                  /\ params' = params )
                => ( /\ out'.err = ""
                     /\ out'.obj.cls = obj.cls
                     /\ out'.obj.data = obj.data
                     /\ out'.obj.nVersion = obj.nVersion ) ) ]_vars

C7_Witness ==
    \* the factory has just turned the script of a P2SH address built by
    \* from_bytes back into that address
    /\ op = "from_scriptPubKey"
    /\ arg.obj.cls = "P2SH"
    /\ arg.obj.nVersion = BASE58_PREFIXES(params).SCRIPT_ADDR
    /\ arg.bytes = <<OP_HASH160, HashLen>> \o arg.obj.data \o <<OP_EQUAL>>
    /\ out.err = ""
    /\ out.obj = arg.obj

\* C8 as the specification states it: the factory applied to a witness-v0
\* script-hash scriptPubKey returns a P2WSH address carrying the 32-byte
\* hash.
C8_FactoryReturnsP2WSH ==
    (op = "from_scriptPubKey" /\ is_witness_v0_scripthash(arg.bytes))
    => /\ out.err = ""
       /\ out.obj.cls = "P2WSH"
       /\ out.obj.data = Slice(arg.bytes, 2, 34)

\* C8 as the code has it: the factory tries only the base58 templates, so
\* it rejects a witness-v0 script-hash scriptPubKey with
\* CTelestaiAddressError; only P2WSHTelestaiAddress.from_scriptPubKey,
\* called directly, returns the P2WSH address carrying the 32-byte hash.
C8_FactoryRejectsScriptHash ==
    /\ (op = "from_scriptPubKey" /\ is_witness_v0_scripthash(arg.bytes))
       => (out.err = "CTelestaiAddressError" /\ out.obj = NoObj)
    /\ (op = "P2WSH.from_scriptPubKey" /\ is_witness_v0_scripthash(arg.bytes))
       => /\ out.err = ""
          /\ out.obj.cls = "P2WSH"
          /\ out.obj.nVersion = 0
          /\ out.obj.data = Slice(arg.bytes, 2, 34)

C8_Witness ==
    /\ op = "from_scriptPubKey"
    /\ is_witness_v0_scripthash(arg.bytes)
    /\ out.err = "CTelestaiAddressError"

\* C9 as the specification states it: the factory applied to a witness-v0
\* key-hash scriptPubKey returns a P2WPKH address carrying the 20-byte hash.
C9_FactoryReturnsP2WPKH ==
    (op = "from_scriptPubKey" /\ is_witness_v0_keyhash(arg.bytes))
    => /\ out.err = ""
       /\ out.obj.cls = "P2WPKH"
       /\ out.obj.data = Slice(arg.bytes, 2, 22)

\* C9 as the code has it: the factory applied to a witness-v0 key-hash
\* scriptPubKey returns the P2PKH address, with the pubkey-address version
\* of the active network, carrying the 20-byte hash; only
\* P2WPKHTelestaiAddress.from_scriptPubKey, called directly, returns the
\* P2WPKH address.
C9_FactoryReturnsP2PKH ==
    /\ (op = "from_scriptPubKey" /\ is_witness_v0_keyhash(arg.bytes))
       => /\ out.err = ""
          /\ out.obj.cls = "P2PKH"
          /\ out.obj.nVersion = BASE58_PREFIXES(params).PUBKEY_ADDR
          /\ out.obj.data = Slice(arg.bytes, 2, 22)
    /\ (op = "P2WPKH.from_scriptPubKey" /\ is_witness_v0_keyhash(arg.bytes))
       => /\ out.err = ""
          /\ out.obj.cls = "P2WPKH"
          /\ out.obj.nVersion = 0
          /\ out.obj.data = Slice(arg.bytes, 2, 22)

C9_Witness ==
    /\ op = "from_scriptPubKey"
    /\ is_witness_v0_keyhash(arg.bytes)
    /\ out.obj.cls = "P2PKH"
    /\ out.obj.data = Slice(arg.bytes, 2, 22)

\* C10: for a bare-checksig script <pubkey> OP_CHECKSIG with a 33-byte or
\* 65-byte public key, P2PKH from_scriptPubKey returns the P2PKH address
\* whose hash is Hash160 of all the bytes of the key, the address
\* from_pubkey gives for that key, when accept_bare_checksig is set, and
\* rejects the script when it is not.
C10_BareChecksig ==
    ( /\ op = "P2PKH.from_scriptPubKey"
      /\ \E pubkey \in PubKeys : arg.bytes = BareChecksigScript(pubkey) )
    => LET pubkey == Slice(arg.bytes, 1, Len(arg.bytes) - 1)
       IN  IF arg.flag
           THEN /\ out.err = ""
                /\ out.obj.cls = "P2PKH"
                /\ out.obj.data = Hash160(pubkey)
                /\ out.obj = P2PKH_from_pubkey(pubkey, FALSE, params).obj
           ELSE out.err = "CTelestaiAddressError"

WellFormedAddress(a, net) ==
    \* an address of exactly one variant, with the hash and the version of
    \* that variant
    \/ a.cls = "P2PKH" /\ Len(a.data) = HashLen
         /\ a.nVersion = BASE58_PREFIXES(net).PUBKEY_ADDR
    \/ a.cls = "P2SH" /\ Len(a.data) = HashLen
         /\ a.nVersion = BASE58_PREFIXES(net).SCRIPT_ADDR
    \/ a.cls = "P2WPKH" /\ Len(a.data) = HashLen /\ a.nVersion = 0
    \/ a.cls = "P2WSH" /\ Len(a.data) = 32 /\ a.nVersion = 0

\* C11: CTelestaiAddress.from_scriptPubKey is total: for every script,
\* scripts with an invalid push encoding included, it either returns an
\* address of exactly one variant or fails with CTelestaiAddressError; no
\* other error escapes and no partially valid address is returned.
C11_FactoryTotal ==
    op = "from_scriptPubKey"
    => \/ out.err = "" /\ WellFormedAddress(out.obj, params)
       \/ out.err = "CTelestaiAddressError" /\ out.obj = NoObj

C11_Witness ==
    \* a script whose push encoding is invalid has been rejected
    /\ op = "from_scriptPubKey"
    /\ Canonicalize(arg.bytes, 0, <<>>).err = "CScriptInvalidError"
    /\ out.err = "CTelestaiAddressError"

(***************************************************************************)
(* Actions across a change of network: objects made under one network are *)
(* encoded, decoded and converted after SelectParams has chosen another.   *)
(***************************************************************************)
Payloads ==
    \* hashes of 20 bytes, and payloads one byte short and one byte long
    {Pattern(seed, HashLen) : seed \in Seeds}
        \cup {Pattern(1, HashLen - 1), Pattern(1, HashLen + 1)}

NetVersions == Versions \cup {0, MainParams.SECRET_KEY, 255}

Str ==
    \* str(obj): the base58 text of the object the program holds
    /\ obj.cls \in {"P2PKH", "P2SH", "CTelestaiSecret"}
    /\ op' = "str"
    /\ arg' = [NoArg EXCEPT !.obj = obj]
    /\ out' = [NoOut EXCEPT !.text = CBase58Data_str(obj)]
    /\ UNCHANGED <<params, coreparams, selecting, obj, made, madeUnder, tx>>

OwnTexts ==
    \* the texts of the object in hand: its string form, and for a key the
    \* WIF written while the network it was made under was active
    IF obj.cls \in {"P2PKH", "P2SH"} THEN {CBase58Data_str(obj)}
    ELSE IF obj.cls # "CTelestaiSecret" THEN {}
    ELSE {CBase58Data_str(obj)}
             \cup (IF Len(obj.data) < MaxKeyBytes
                   THEN {to_wif(obj, madeUnder)} ELSE {})

DecodeOwnText(s) ==
    \* CTelestaiSecret(s) for the text of a key, CTelestaiAddress(s) for
    \* the text of an address
    IF obj.cls = "CTelestaiSecret" THEN DecodeWif(s) ELSE DecodeAddress(s)

NextNet ==
    \/ \E name \in Networks \cup {"signet"} : SelectParams(name)
    \/ \E data \in Payloads, nVersion \in NetVersions :
          FromBytes(data, nVersion)
    \/ \E seed \in Seeds, compressed \in BOOLEAN :
          FromSecretBytes(seed, compressed)
    \/ Str
    \/ ToWif
    \/ ToScriptPubKey
    \/ \E s \in OwnTexts : DecodeOwnText(s)

SpecNet == Init /\ [][NextNet]_vars

(***************************************************************************)
(* Claims about the active network (checked under SpecNet).                *)
(***************************************************************************)
\* C12: CBase58TelestaiAddress.from_bytes(payload, version) returns a P2SH
\* address exactly when version is the SCRIPT_ADDR prefix of the active
\* network and a P2PKH address exactly when it is the PUBKEY_ADDR prefix;
\* for every other version it fails with CTelestaiAddressError and returns
\* no address.
C12_FromBytesByVersion ==
    op = "from_bytes"
    => LET prefixes == BASE58_PREFIXES(params)
       IN  /\ (out.err = "" /\ out.obj.cls = "P2SH")
                 <=> arg.num = prefixes.SCRIPT_ADDR
           /\ (out.err = "" /\ out.obj.cls = "P2PKH")
                 <=> arg.num = prefixes.PUBKEY_ADDR
           /\ out.err = ""
                 => /\ out.obj.data = arg.bytes
                    /\ out.obj.nVersion = arg.num
           /\ arg.num \notin {prefixes.SCRIPT_ADDR, prefixes.PUBKEY_ADDR}
                 => (out.err = "CTelestaiAddressError" /\ out.obj = NoObj)

C12_Witness ==
    \* under testnet the mainnet script version has been refused
    /\ op = "from_bytes"
    /\ params = "testnet"
    /\ arg.num = MainParams.SCRIPT_ADDR
    /\ out.err = "CTelestaiAddressError"

\* C13: from_bytes for P2PKH or P2SH accepts only a payload of exactly 20
\* bytes; a payload of any other length fails with InvalidPayloadLength
\* and no address is constructed.
C13_PayloadLength ==
    (op = "from_bytes" /\ Len(arg.bytes) # HashLen
       /\ arg.num \in {BASE58_PREFIXES(params).SCRIPT_ADDR,
                       BASE58_PREFIXES(params).PUBKEY_ADDR})
    => (out.err = "InvalidPayloadLength" /\ out.obj = NoObj)

Base58Classes == {"P2PKH", "P2SH", "CTelestaiSecret"}

DecodesOwnText ==
    \* the step decodes a text of the object in hand
    /\ op' \in {"CTelestaiSecret", "CTelestaiAddress"}
    /\ arg'.text \in OwnTexts

DecodeRejected ==
    /\ out'.err = (IF obj.cls = "CTelestaiSecret"
                   THEN "CTelestaiSecretError" ELSE "CTelestaiAddressError")
    /\ out'.obj = NoObj
    /\ obj' = obj

\* C14 as the specification states it: for every pair of distinct networks
\* A and B among mainnet, testnet and regtest, an address or WIF secret
\* made while A is active is rejected, by decode and by to_scriptPubKey,
\* once B is active.
C14_RejectedUnderEveryOtherNetwork ==
    [][ (obj.cls \in Base58Classes /\ madeUnder # params /\ params' = params)
        => /\ DecodesOwnText => DecodeRejected
           /\ op' = "to_scriptPubKey"
                 => (out'.err = "AssertionError" /\ out'.bytes = <<>>) ]_vars

\* C14 as the code has it: an address or WIF secret made while A is active
\* is rejected under B (decode fails with CTelestaiAddressError or
\* CTelestaiSecretError, to_scriptPubKey fails its assertion) when the
\* version bytes of A and B differ, that is between mainnet and testnet or
\* regtest; testnet and regtest share their version bytes, and an object
\* of one decodes and converts under the other.
C14_RejectedUnderOtherVersions ==
    [][ (obj.cls \in Base58Classes /\ madeUnder # params /\ params' = params)
        => IF BASE58_PREFIXES(madeUnder) # BASE58_PREFIXES(params)
           THEN /\ DecodesOwnText => DecodeRejected
                /\ op' = "to_scriptPubKey"
                      => (out'.err = "AssertionError" /\ out'.bytes = <<>>)
           ELSE /\ DecodesOwnText
                      => (out'.err = "" /\ out'.obj.cls = obj.cls)
                /\ op' = "to_scriptPubKey"
                      => (out'.err = "" /\ out'.bytes # <<>>) ]_vars

C14_Witness ==
    \* the text of a key made under mainnet has been refused under regtest
    /\ op = "CTelestaiSecret"
    /\ madeUnder = "mainnet"
    /\ params = "regtest"
    /\ obj.cls = "CTelestaiSecret"
    /\ arg.obj = obj
    /\ arg.text = CBase58Data_str(obj)
    /\ out.err = "CTelestaiSecretError"

ActivePrefix(cls) ==
    IF cls = "P2SH" THEN BASE58_PREFIXES(params).SCRIPT_ADDR
    ELSE BASE58_PREFIXES(params).PUBKEY_ADDR

\* C15: after any sequence of SelectParams calls, to_scriptPubKey on a
\* P2PKH or P2SH address returns a script only if the version byte stored
\* in the address at construction equals the active network's prefix for
\* that variant; otherwise it fails (the assertion) and returns no script.
C15_ScriptOnlyForActiveVersion ==
    (op = "to_scriptPubKey" /\ arg.obj.cls \in {"P2PKH", "P2SH"})
    => IF arg.obj.nVersion = ActivePrefix(arg.obj.cls)
       THEN /\ out.err = ""
            /\ out.bytes =
                  (IF arg.obj.cls = "P2SH"
                   THEN <<OP_HASH160, Len(arg.obj.data)>> \o arg.obj.data
                        \o <<OP_EQUAL>>
                   ELSE <<OP_DUP, OP_HASH160, Len(arg.obj.data)>>
                        \o arg.obj.data \o <<OP_EQUALVERIFY, OP_CHECKSIG>>)
       ELSE /\ out.err = "AssertionError"
            /\ out.bytes = <<>>

C15_Witness ==
    \* an address made under testnet is asked for its script under mainnet
    /\ op = "to_scriptPubKey"
    /\ arg.obj.cls = "P2SH"
    /\ madeUnder = "testnet"
    /\ params = "mainnet"
    /\ out.err = "AssertionError"

\* C16: SelectParams(name) with a name outside mainnet, testnet, regtest
\* fails with ValueError and leaves the active parameters unchanged; with
\* a valid name the active parameters afterwards are the table of that
\* network.
C16_SelectParams ==
    [][ op' = "SelectParams"
        => LET name == arg'.text[1]
           IN  IF name \in Networks
               THEN /\ out'.err = ""
                    /\ params' = name
                    /\ coreparams' = name
                    /\ BASE58_PREFIXES(params') =
                          (CASE name = "mainnet" -> MainParams
                             [] name = "testnet" -> TestNetParams
                             [] OTHER -> RegTestParams)
               ELSE /\ out'.err = "ValueError"
                    /\ params' = params
                    /\ coreparams' = coreparams ]_vars

C16_Witness ==
    \* an unknown name has been refused while testnet was active
    /\ op = "SelectParams"
    /\ arg.text = <<"signet">>
    /\ out.err = "ValueError"
    /\ params = "testnet"
    /\ coreparams = "testnet"

(***************************************************************************)
(* SelectParams statement by statement, for callers on several threads.    *)
(* The function first calls telestai.core._SelectCoreParams(name), which   *)
(* assigns telestai.core.coreparams, and then assigns telestai.params; no  *)
(* lock is held, so the operations of another thread can run in between.   *)
(* selecting holds the name whose selection is under way ("" when none).   *)
(***************************************************************************)
SelectCoreParams(name) ==
    \* telestai.core._SelectCoreParams(name)
    /\ selecting = ""
    /\ op' = "_SelectCoreParams"
    /\ arg' = [NoArg EXCEPT !.text = <<name>>]
    /\ IF name \in Networks
       THEN /\ coreparams' = name
            /\ selecting' = name
            /\ out' = NoOut
       ELSE /\ UNCHANGED <<coreparams, selecting>>
            /\ out' = [NoOut EXCEPT !.err = "ValueError"]
    /\ UNCHANGED <<params, obj, made, madeUnder, tx>>

SelectParamsAssign ==
    \* params = telestai.core.coreparams = MainParams() (or the table of
    \* the name selected)
    /\ selecting # ""
    /\ op' = "SelectParams"
    /\ arg' = [NoArg EXCEPT !.text = <<selecting>>]
    /\ params' = selecting
    /\ coreparams' = selecting
    /\ selecting' = ""
    /\ out' = NoOut
    /\ UNCHANGED <<obj, made, madeUnder, tx>>

NextThreads ==
    \/ \E name \in Networks \cup {"signet"} : SelectCoreParams(name)
    \/ SelectParamsAssign
    \/ \E seed \in Seeds, compressed \in BOOLEAN :
          FromSecretBytes(seed, compressed)
    \/ \E seed \in Seeds, nVersion \in Versions :
          FromBytes(Pattern(seed, HashLen), nVersion)
    \/ ToWif
    \/ ToScriptPubKey

SpecThreads == Init /\ [][NextThreads]_vars

\* C17: replacing the active network is atomic: an operation interleaved
\* with SelectParams sees either the old or the new parameters, never
\* telestai.core.coreparams of one network and telestai.params of another.
C17_AtomicSelect ==
    op \notin {"_SelectCoreParams", "SelectParams"} => coreparams = params

VersionFor(cls, net) ==
    CASE cls = "CTelestaiSecret" -> BASE58_PREFIXES(net).SECRET_KEY
      [] cls = "P2SH" -> BASE58_PREFIXES(net).SCRIPT_ADDR
      [] OTHER -> BASE58_PREFIXES(net).PUBKEY_ADDR

DecodedWif == CBase58Data_new("CTelestaiSecret", arg.text)

\* C19: decoding a WIF string whose version byte differs from the active
\* network's SECRET_KEY prefix fails with CTelestaiSecretError and yields
\* no key.
C19_WifWrongVersion ==
    ( /\ op = "CTelestaiSecret"
      /\ DecodedWif.err = ""
      /\ DecodedWif.obj.nVersion # BASE58_PREFIXES(params).SECRET_KEY )
    => /\ out.err = "CTelestaiSecretError"
       /\ out.obj = NoObj
       /\ obj = arg.obj

C19_Witness ==
    \* the WIF of a key made under mainnet has been refused under testnet
    /\ op = "CTelestaiSecret"
    /\ params = "testnet"
    /\ DecodedWif.err = ""
    /\ DecodedWif.obj.nVersion = MainParams.SECRET_KEY
    /\ out.err = "CTelestaiSecretError"

\* C20: decoding a WIF string accepts only a 32-byte body or a 33-byte
\* body whose last byte is 0x01; a body of any other length, or a 33-byte
\* body with another last byte, fails with InvalidPayloadLength instead of
\* yielding a key.
C20_WifBodyLength ==
    ( /\ op = "CTelestaiSecret"
      /\ DecodedWif.err = ""
      /\ DecodedWif.obj.nVersion = BASE58_PREFIXES(params).SECRET_KEY )
    => LET body == DecodedWif.obj.data
       IN  IF \/ Len(body) = ScalarLen
              \/ Len(body) = ScalarLen + 1 /\ body[ScalarLen + 1] = 1
           THEN out.err = "" /\ out.obj.cls = "CTelestaiSecret"
           ELSE out.err = "InvalidPayloadLength" /\ out.obj = NoObj

(***************************************************************************)
(* evrmore/core/transaction.py: CMultiSigTransaction.  The script library  *)
(* (CScript, SignatureHash), the transaction classes and the signing of a  *)
(* hash by a key are outside src/ and follow the design document: a redeem *)
(* script is its bytes together with `required`, the threshold, which is   *)
(* an unsigned integer.  A Python value whose type matters to the code is  *)
(* a record of its type and its value.                                     *)
(***************************************************************************)
SIGHASH_ALL == 1

OP_CHECKMULTISIG == 174

DerSigLen == 70

PyValue(type, val) == [type |-> type, val |-> val]

len(v) ==
    \* the builtin: defined on sized values, TypeError on an int
    IF v.type \in {"list", "bytes", "str"}
    THEN [err |-> "", val |-> Len(v.val)]
    ELSE [err |-> "TypeError", val |-> 0]

SignatureHash(script, txTo, inIdx, hashtype) ==
    \* the digest commits to the script, the outpoints, the outputs, the
    \* index of the signed input and the hash type
    Digest(10,
           script \o [i \in 1..Len(txTo.vin) |-> txTo.vin[i].prevout]
                  \o [i \in 1..Len(txTo.vout) |-> txTo.vout[i].nValue]
                  \o <<inIdx, hashtype>>,
           32)

CKey_sign(key, hash) == Digest(11, SecretOf(key) \o hash, DerSigLen)

RECURSIVE sign_loop(_, _, _, _, _)
sign_loop(private_keys, i, signatures, redeem_script, sighash) ==
    \* for privkey in private_keys:
    \*     if len(signatures) >= len(redeem_script.required): break
    \*     sig = privkey.sign(sighash) + bytes([SIGHASH_ALL])
    \*     signatures.append(sig)
    \* return signatures
    IF i > Len(private_keys) THEN [err |-> "", list |-> signatures]
    ELSE LET n == len(redeem_script.required)
         IN  IF n.err # "" THEN [err |-> n.err, list |-> <<>>]
             ELSE IF Len(signatures) >= n.val
             THEN [err |-> "", list |-> signatures]
             ELSE sign_loop(
                      private_keys, i + 1,
                      Append(signatures,
                             CKey_sign(private_keys[i], sighash)
                                 \o <<SIGHASH_ALL>>),
                      redeem_script, sighash)

sign_with_multiple_keys(self, private_keys, redeem_script) ==
    \* sighash = SignatureHash(redeem_script, self, 0, SIGHASH_ALL, ...)
    sign_loop(private_keys, 1, <<>>, redeem_script,
              SignatureHash(redeem_script.script, self, 0, SIGHASH_ALL))

CScript_push(d) ==
    \* CScript([d]) for bytes d: one canonical push of d
    encode_op_pushdata(d)

CScript_add(a, b) ==
    \* a += b for two scripts: the elements of a followed by those of b
    a \o b

RECURSIVE append_signatures(_, _, _)
append_signatures(scriptSig, signatures, i) ==
    \* for sig in signatures: scriptSig += CScript([sig])
    IF i > Len(signatures) THEN scriptSig
    ELSE append_signatures(
             CScript_add(scriptSig, CScript_push(signatures[i])),
             signatures, i + 1)

multisig_scriptSig(signatures, redeem_script) ==
    \* CScript([OP_0]), the signatures, then CScript([redeem_script])
    CScript_add(append_signatures(<<OP_0>>, signatures, 1),
                CScript_push(redeem_script.script))

apply_multisig_signatures_Append(self, signatures, redeem_script) ==
    \* a variant that extends the unlocking script already present
    IF Len(self.vin) = 0 THEN [err |-> "IndexError", tx |-> self]
    ELSE [err |-> "",
          tx  |-> [self EXCEPT
                     !.vin[1].scriptSig =
                        @ \o multisig_scriptSig(signatures, redeem_script)]]

apply_multisig_signatures_EveryInput(self, signatures, redeem_script) ==
    \* a variant that writes the unlocking script of every input
    IF Len(self.vin) = 0 THEN [err |-> "IndexError", tx |-> self]
    ELSE [err |-> "",
          tx  |-> [self EXCEPT
                     !.vin =
                        [i \in 1..Len(self.vin) |->
                            [self.vin[i] EXCEPT
                               !.scriptSig =
                                  multisig_scriptSig(signatures,
                                                     redeem_script)]]]]

apply_multisig_signatures(self, signatures, redeem_script) ==
    \* self.vin[0].scriptSig = scriptSig
    IF Len(self.vin) = 0 THEN [err |-> "IndexError", tx |-> self]
    ELSE [err |-> "",
          tx  |-> [self EXCEPT
                     !.vin[1].scriptSig =
                        multisig_scriptSig(signatures, redeem_script)]]

(***************************************************************************)
(* Inputs and actions of the multisig signer.                              *)
(***************************************************************************)
MaxKeys == 3

MultisigSeeds == <<1, 2, 3>>

TxKeySeeds == {MultisigSeeds[i] : i \in 1..Len(MultisigSeeds)}

TxKey(seed) == from_secret_bytes(Pattern(seed, ScalarLen), TRUE, "mainnet").obj

MultisigScript(m, seeds) ==
    \* OP_m <pubkey> ... <pubkey> OP_n OP_CHECKMULTISIG
    LET RECURSIVE pushes(_)
        pushes(i) == IF i > Len(seeds) THEN <<>>
                     ELSE CScript_push(TxKey(seeds[i]).pub) \o pushes(i + 1)
    IN  [script   |-> <<80 + m>> \o pushes(1)
                         \o <<80 + Len(seeds), OP_CHECKMULTISIG>>,
         required |-> PyValue("int", m)]

RedeemScripts ==
    \* 1-of-2 over the first two keys, 2-of-3 over the three
    {MultisigScript(1, Slice(MultisigSeeds, 0, 2)),
     MultisigScript(2, MultisigSeeds)}

SeedLists(S, n) ==
    UNION { [1..k -> S] : k \in 0..n }

KeyLists ==
    \* up to MaxKeys keys, in any order, a key possibly more than once
    { [i \in 1..Len(l) |-> TxKey(l[i])] : l \in SeedLists(TxKeySeeds, MaxKeys) }

SignaturesBy(seeds, redeem_script) ==
    \* the transaction signatures of the keys of these seeds, in order
    LET sighash == SignatureHash(redeem_script.script, tx, 0, SIGHASH_ALL)
    IN  [i \in 1..Len(seeds) |->
            CKey_sign(TxKey(seeds[i]), sighash) \o <<SIGHASH_ALL>>]

SignatureLists(redeem_script) ==
    \* up to `required` signatures by the first two keys of the script
    { SignaturesBy(l, redeem_script) :
        l \in SeedLists({MultisigSeeds[1], MultisigSeeds[2]},
                        redeem_script.required.val) }

SignWithMultipleKeys(private_keys, redeem_script) ==
    \* tx.sign_with_multiple_keys(private_keys, redeem_script)
    /\ op' = "sign_with_multiple_keys"
    /\ arg' = [NoArg EXCEPT !.list = private_keys,
                            !.bytes = redeem_script.script,
                            !.num = redeem_script.required.val]
    /\ LET r == sign_with_multiple_keys(tx, private_keys, redeem_script)
       IN  out' = [NoOut EXCEPT !.err = r.err, !.list = r.list]
    /\ UNCHANGED <<params, coreparams, selecting, obj, made, madeUnder, tx>>

ApplyMultisigSignatures(signatures, redeem_script) ==
    \* tx.apply_multisig_signatures(signatures, redeem_script)
    /\ op' = "apply_multisig_signatures"
    /\ arg' = [NoArg EXCEPT !.list = signatures,
                            !.bytes = redeem_script.script,
                            !.num = redeem_script.required.val]
    /\ LET r == apply_multisig_signatures(tx, signatures, redeem_script)
       IN  /\ out' = [NoOut EXCEPT !.err = r.err]
           /\ tx' = r.tx
    /\ UNCHANGED <<params, coreparams, selecting, obj, made, madeUnder>>

NextTx ==
    \/ \E private_keys \in KeyLists, redeem_script \in RedeemScripts :
          SignWithMultipleKeys(private_keys, redeem_script)
    \/ \E redeem_script \in RedeemScripts :
          \E signatures \in SignatureLists(redeem_script) :
             ApplyMultisigSignatures(signatures, redeem_script)

SpecTx == Init /\ [][NextTx]_vars

Min(a, b) == IF a < b THEN a ELSE b

\* C21: sign_with_multiple_keys returns exactly min(len(keys), required)
\* signatures, required being the threshold of the redeem script; for a
\* 2-of-3 redeem script and 3 keys it returns exactly 2 signatures.
C21_ThresholdSignatures ==
    op = "sign_with_multiple_keys"
    => /\ out.err = ""
       /\ Len(out.list) = Min(Len(arg.list), arg.num)

\* C22: apply_multisig_signatures sets the unlocking script of the first
\* input to OP_0, one push per signature in the supplied order, then one
\* push of the redeem script, whatever the script held before: a second
\* application replaces the script and does not extend it.
C22_UnlockingScript ==
    (op = "apply_multisig_signatures" /\ out.err = "")
    => LET RECURSIVE pushes(_)
           pushes(i) == IF i > Len(arg.list) THEN <<>>
                        ELSE encode_op_pushdata(arg.list[i]) \o pushes(i + 1)
       IN  tx.vin[1].scriptSig
              = <<OP_0>> \o pushes(1) \o encode_op_pushdata(arg.bytes)

C22_Witness ==
    \* two different signatures have been applied with the 2-of-3 script,
    \* which is pushed with OP_PUSHDATA1
    /\ op = "apply_multisig_signatures"
    /\ out.err = ""
    /\ arg.num = 2
    /\ Len(arg.list) = 2
    /\ arg.list[1] # arg.list[2]
    /\ Len(arg.bytes) > 75
    /\ Len(tx.vin[1].scriptSig)
          = 1 + 2 * (1 + DerSigLen + 1) + 2 + Len(arg.bytes)

\* C24: the i-th signature returned by sign_with_multiple_keys is the
\* signature of the i-th supplied key over the signature hash of input 0
\* followed by the sighash-type byte, in the order of the keys; a key
\* supplied twice yields two entries and no key is checked against the
\* public keys of the redeem script.
C24_SignaturesInKeyOrder ==
    op = "sign_with_multiple_keys"
    => \A i \in 1..Len(arg.list) :
          i <= arg.num
          => /\ Len(out.list) >= i
             /\ out.list[i]
                   = CKey_sign(arg.list[i],
                               SignatureHash(arg.bytes, tx, 0, SIGHASH_ALL))
                        \o <<SIGHASH_ALL>>

\* C25: apply_multisig_signatures changes nothing but the unlocking script
\* of the first input of the transaction, and sign_with_multiple_keys
\* changes nothing at all.
C25_Frame ==
    [][ /\ op' = "apply_multisig_signatures"
           => /\ tx'.vout = tx.vout
              /\ Len(tx'.vin) = Len(tx.vin)
              /\ \A i \in 1..Len(tx.vin) :
                    /\ tx'.vin[i].prevout = tx.vin[i].prevout
                    /\ i > 1 => tx'.vin[i] = tx.vin[i]
              /\ UNCHANGED <<params, coreparams, obj>>
        /\ op' = "sign_with_multiple_keys"
           => UNCHANGED <<tx, params, coreparams, obj>> ]_vars

C25_Witness ==
    \* the first input carries an unlocking script, the second none, and
    \* the output is the one the transaction was built with
    /\ op = "apply_multisig_signatures"
    /\ out.err = ""
    /\ tx.vin[1].scriptSig # <<>>
    /\ tx.vin[2] = UnsignedTx.vin[2]
    /\ tx.vout = UnsignedTx.vout

(***************************************************************************)
(* Base58Check, signature header, templates and parameters: claims on the  *)
(* specifications above.                                                   *)
(***************************************************************************)
BadChecksum(s) ==
    \* base-58 text of a version byte, a body and four bytes that are not
    \* the checksum of what precedes them
    /\ base58_valid(s)
    /\ LET k == base58_decode(s)
       IN  /\ Len(k) > 4
           /\ Slice(k, Len(k) - 4, Len(k))
                 # Slice(double_sha256(Slice(k, 0, Len(k) - 4)), 0, 4)

\* C23: a base58 string whose last 4 decoded bytes are not the first 4
\* bytes of the double SHA256 of the bytes before them is rejected with a
\* checksum error and decodes to no address and no key; CTelestaiAddress
\* of such a string raises the address error and creates no object.
C23_BadChecksumRejected ==
    (op \in {"CTelestaiAddress", "CTelestaiSecret"} /\ BadChecksum(arg.text))
    => /\ out.err = (IF op = "CTelestaiAddress" THEN "CTelestaiAddressError"
                     ELSE "Base58ChecksumError")
       /\ out.obj = NoObj
       /\ obj = arg.obj

C23_Witness ==
    \* the address of the test-suite with its last character replaced has
    \* been refused
    /\ op = "CTelestaiAddress"
    /\ arg.text = ReplaceLast(VectorAddr, "u")
    /\ BadChecksum(arg.text)
    /\ out.err = "CTelestaiAddressError"

\* C26: for every key and every recovery id in 0..3 SignMessage returns the
\* base64 text of 65 bytes whose first byte is 27 + recovery id + 4 for a
\* compressed key; the header lies in 27..34 and (header - 27) & 3 and
\* header >= 31 give back the recovery id and the compressed flag.
C26_SignatureHeader ==
    op = "SignMessage"
    => LET d == b64decode(out.text)
           header == d.bytes[1]
       IN  /\ d.err = ""
           /\ Len(d.bytes) = 65
           /\ header = 27 + arg.num + (IF arg.obj.compressed THEN 4 ELSE 0)
           /\ header \in 27..34
           /\ (header - 27) % 4 = arg.num
           /\ (header >= 31) = arg.obj.compressed

C26_Witness ==
    \* a compressed key has signed with recovery id 3: header 34
    /\ op = "SignMessage"
    /\ arg.obj.compressed
    /\ arg.num = 3
    /\ b64decode(out.text).bytes[1] = 34

AcceptingVariants(scriptPubKey, net) ==
    \* the variants whose from_scriptPubKey, called with its defaults,
    \* returns an address for the script
    { v \in {"P2WSH", "P2WPKH", "P2SH", "P2PKH"} :
        (CASE v = "P2WSH"  -> P2WSH_from_scriptPubKey(scriptPubKey)
           [] v = "P2WPKH" -> P2WPKH_from_scriptPubKey(scriptPubKey)
           [] v = "P2SH"   -> P2SH_from_scriptPubKey(scriptPubKey, net)
           [] v = "P2PKH"  -> P2PKH_from_scriptPubKey(scriptPubKey,
                                                     TRUE, TRUE, net)).err
           = "" }

FirstAccepting(order, scriptPubKey, net) ==
    \* the variant a factory trying the variants in this order returns
    LET acc == AcceptingVariants(scriptPubKey, net)
        hits == { i \in 1..Len(order) : order[i] \in acc }
    IN  IF hits = {} THEN "none"
        ELSE order[CHOOSE i \in hits : \A j \in hits : i <= j]

FromScriptPubKeyOps ==
    {"from_scriptPubKey", "P2PKH.from_scriptPubKey",
     "P2WSH.from_scriptPubKey", "P2WPKH.from_scriptPubKey"}

\* C27: the script templates are disjoint: no script is accepted by the
\* from_scriptPubKey of more than one of P2WSH, P2WPKH, P2SH and P2PKH, so
\* the variant returned does not depend on the order in which the variants
\* are tried.
C27_TemplatesDisjoint ==
    op \in FromScriptPubKeyOps
    => /\ Cardinality(AcceptingVariants(arg.bytes, params)) <= 1
       /\ FirstAccepting(<<"P2WSH", "P2WPKH", "P2SH", "P2PKH">>,
                         arg.bytes, params)
             = FirstAccepting(<<"P2PKH", "P2SH", "P2WPKH", "P2WSH">>,
                              arg.bytes, params)

\* C27 as the code has it: a witness-v0 key-hash script (OP_0 and a push
\* of 20 bytes) is accepted by P2WPKH and by P2PKH, and which of the two is
\* returned depends on the order; every other script is accepted by at
\* most one variant, whatever the order.
C27_DisjointButKeyHash ==
    op \in FromScriptPubKeyOps
    => LET acc == AcceptingVariants(arg.bytes, params)
           fwd == FirstAccepting(<<"P2WSH", "P2WPKH", "P2SH", "P2PKH">>,
                                 arg.bytes, params)
           rev == FirstAccepting(<<"P2PKH", "P2SH", "P2WPKH", "P2WSH">>,
                                 arg.bytes, params)
       IN  IF is_witness_v0_keyhash(arg.bytes)
           THEN acc = {"P2WPKH", "P2PKH"} /\ fwd = "P2WPKH" /\ rev = "P2PKH"
           ELSE Cardinality(acc) <= 1 /\ fwd = rev

C27_Witness ==
    \* P2WPKH has accepted a script that P2PKH accepts as well
    /\ op = "P2WPKH.from_scriptPubKey"
    /\ out.err = ""
    /\ out.obj.cls = "P2WPKH"
    /\ is_witness_v0_keyhash(arg.bytes)
    /\ P2PKH_from_scriptPubKey(arg.bytes, TRUE, TRUE, params).obj.cls = "P2PKH"

\* C28: after any sequence of SelectParams calls, successful or failed,
\* telestai.params and telestai.core.coreparams denote the same network:
\* the one selected last with success, or mainnet when none was.
C28_SameNetwork ==
    /\ params = "mainnet" /\ coreparams = "mainnet"
    /\ [][ /\ coreparams' = params'
           /\ IF op' = "SelectParams" /\ out'.err = ""
              THEN params' = arg'.text[1]
              ELSE params' = params ]_vars

C28_Witness ==
    \* regtest was selected, an address was made, and a selection has just
    \* failed: both are still regtest
    /\ op = "SelectParams"
    /\ out.err = "ValueError"
    /\ params = "regtest"
    /\ coreparams = "regtest"
    /\ obj.cls = "P2SH"
    /\ madeUnder = "regtest"

(***************************************************************************)
(* telestai/signmessage.py: TelestaiMessage as a serializable object.  A   *)
(* text is a sequence of code points; the interpreter is Python 3, where   *)
(* str has encode() and bytes has not.                                     *)
(***************************************************************************)
MaxTextLen == 3

RECURSIVE utf8_encode(_)
utf8_encode(t) ==
    \* str.encode("utf-8") for code points below 0x800: ASCII is kept as
    \* it is, any other code point takes two bytes
    IF \A i \in 1..Len(t) : t[i] < 128 THEN t
    ELSE (IF Head(t) < 128 THEN <<Head(t)>>
          ELSE <<192 + (Head(t) \div 64), 128 + (Head(t) % 64)>>)
            \o utf8_encode(Tail(t))

NoMessage == [cls |-> "none", magic |-> <<>>, message |-> <<>>]

TelestaiMessage_init(message, magic) ==
    \* object.__setattr__(self, 'message', message.encode("utf-8"))
    \* object.__setattr__(self, 'magic', magic.encode("utf-8"))
    IF message.type # "str" \/ magic.type # "str"
    THEN [err |-> "AttributeError", obj |-> NoMessage]
    ELSE [err |-> "",
          obj |-> [cls     |-> "TelestaiMessage",
                   magic   |-> utf8_encode(magic.val),
                   message |-> utf8_encode(message.val)]]

BytesSerializer_deserialize(f) ==
    \* [err, bytes, rest]: the compact-size length, then that many bytes
    LET short == [err |-> "SerializationTruncationError",
                  bytes |-> <<>>, rest |-> <<>>]
    IN  IF Len(f) = 0 THEN short
        ELSE LET wide == f[1] = 253
                 n == IF wide /\ Len(f) >= 3 THEN f[2] + 256 * f[3] ELSE f[1]
                 at == IF wide THEN 3 ELSE 1
             IN  IF f[1] > 253 \/ (wide /\ Len(f) < 3) \/ Len(f) < at + n
                 THEN short
                 ELSE [err |-> "", bytes |-> Slice(f, at, at + n),
                       rest |-> Slice(f, at + n, Len(f))]

stream_deserialize(f) ==
    \* magic = BytesSerializer.stream_deserialize(f)
    \* message = BytesSerializer.stream_deserialize(f)
    \* return cls(message, magic)
    LET magic == BytesSerializer_deserialize(f)
        message == BytesSerializer_deserialize(magic.rest)
    IN  IF magic.err # "" THEN [err |-> magic.err, obj |-> NoMessage]
        ELSE IF message.err # "" THEN [err |-> message.err, obj |-> NoMessage]
        ELSE TelestaiMessage_init(PyValue("bytes", message.bytes),
                                  PyValue("bytes", magic.bytes))

stream_serialize(self) ==
    \* BytesSerializer.stream_serialize(self.magic, f), then self.message
    BytesSerializer(self.magic) \o BytesSerializer(self.message)

(***************************************************************************)
(* Inputs and actions on messages.                                         *)
(***************************************************************************)
Texts ==
    \* texts over an ASCII letter and a letter outside ASCII, and one text
    \* long enough for the three-byte form of the length
    UNION { [1..n -> {97, 233}] : n \in 0..MaxTextLen }
        \cup {Repeat(97, 253)}

NewMessage(message, magic) ==
    \* TelestaiMessage(message, magic)
    Construct("TelestaiMessage",
              [NoArg EXCEPT !.text = message, !.bytes = magic],
              TelestaiMessage_init(PyValue("str", message), PyValue("str", magic)))

Serialize ==
    \* obj.serialize()
    /\ obj.cls = "TelestaiMessage"
    /\ op' = "stream_serialize"
    /\ arg' = [NoArg EXCEPT !.obj = obj]
    /\ out' = [NoOut EXCEPT !.bytes = stream_serialize(obj)]
    /\ UNCHANGED <<params, coreparams, selecting, obj, made, madeUnder, tx>>

Deserialize ==
    \* TelestaiMessage.deserialize(buf) for the bytes just written, whole
    \* or without their last byte
    /\ op = "stream_serialize"
    /\ \E f \in {out.bytes, Slice(out.bytes, 0, Len(out.bytes) - 1)} :
          Construct("stream_deserialize",
                    [NoArg EXCEPT !.bytes = f, !.obj = obj],
                    stream_deserialize(f))

NextMsg ==
    \/ \E message \in Texts, magic \in {MessageMagic, <<>>} :
          NewMessage(message, magic)
    \/ Serialize
    \/ Deserialize

SpecMsg == Init /\ [][NextMsg]_vars

\* C29: for every TelestaiMessage m, deserializing the bytes produced by
\* serializing m succeeds and yields a message with the magic bytes and
\* the message bytes of m.
C29_SerializeRoundTrip ==
    (op = "stream_deserialize" /\ arg.bytes = stream_serialize(arg.obj))
    => /\ out.err = ""
       /\ out.obj.magic = arg.obj.magic
       /\ out.obj.message = arg.obj.message

(***************************************************************************)
(* telestai/rpc.py: JSONRPCError and BaseProxy._call.  A parsed JSON value *)
(* is a Python value: None, a str, an int, a list, or a dict, which is a   *)
(* function from the keys it has to their values.  The transport is not    *)
(* modelled beyond what it hands to _get_response: no HTTP response, a     *)
(* body that is not JSON, or a body that parses.                           *)
(***************************************************************************)
MaxCalls == 3

dict_get(d, k, default) ==
    \* d.get(k, default)
    IF k \in DOMAIN d.val THEN d.val[k] ELSE default

SUBCLS_BY_CODE(code) ==
    \* the classes registered with _register_subcls, JSONRPCError otherwise
    CASE code = -2  -> "ForbiddenBySafeModeError"
      [] code = -5  -> "InvalidAddressOrKeyError"
      [] code = -8  -> "InvalidParameterError"
      [] code = -25 -> "VerifyError"
      [] code = -26 -> "VerifyRejectedError"
      [] code = -27 -> "VerifyAlreadyInChainError"
      [] code = -28 -> "InWarmupError"
      [] OTHER -> "JSONRPCError"

JSONRPCError_new(rpc_error) ==
    \* cls = JSONRPCError.SUBCLS_BY_CODE.get(rpc_error['code'], cls):
    \* the lookup hashes the code, which a list or a dict does not allow
    IF rpc_error.code.type \in {"list", "dict"}
    THEN [exc |-> "TypeError", code |-> rpc_error.code]
    ELSE [exc  |-> IF rpc_error.code.type = "int"
                   THEN SUBCLS_BY_CODE(rpc_error.code.val)
                   ELSE "JSONRPCError",
          code |-> rpc_error.code]

get_response(http) ==
    \* [exc, code, response]
    IF http.kind = "none" \/ http.kind = "text"
    THEN LET e == JSONRPCError_new([code |-> PyValue("int", -342)])
         IN  [exc |-> e.exc, code |-> e.code, response |-> http]
    ELSE [exc |-> "", code |-> PyValue("int", 0), response |-> http.value]

BaseProxy_call(http) ==
    \* [exc, code, result]: response = self._get_response();
    \* err = response.get('error'); ...
    LET r == get_response(http)
        response == r.response
        none == PyValue("NoneType", <<>>)
        raise(e) == [exc |-> e.exc, code |-> e.code, result |-> none]
    IN  IF r.exc # "" THEN [exc |-> r.exc, code |-> r.code, result |-> none]
        ELSE IF response.type # "dict"
        THEN [exc |-> "AttributeError", code |-> none, result |-> none]
        ELSE LET err == dict_get(response, "error", none)
             IN  IF err.type # "NoneType"
                 THEN IF err.type = "dict"
                      THEN raise(JSONRPCError_new(
                               [code |-> dict_get(err, "code",
                                                  PyValue("int", -345))]))
                      ELSE raise(JSONRPCError_new(
                               [code |-> PyValue("int", -344)]))
                 ELSE IF "result" \notin DOMAIN response.val
                 THEN raise(JSONRPCError_new([code |-> PyValue("int", -343)]))
                 ELSE [exc |-> "", code |-> none,
                       result |-> response.val["result"]]

(***************************************************************************)
(* Inputs and actions of the proxy.                                        *)
(***************************************************************************)
HttpResponses ==
    \* what the server can send, as a list: nothing, text that is not
    \* JSON, and JSON values, most of them objects with or without 'error'
    \* and 'result'
    LET none == PyValue("NoneType", <<>>)
        json(v) == [kind |-> "json", value |-> v]
        ints == <<-1, -2, -5, -8, -25, -26, -27, -28>>
        codes == [i \in 1..Len(ints) |-> PyValue("int", ints[i])]
                    \o <<none, PyValue("list", <<>>)>>
        errors == <<none, PyValue("str", "x"), PyValue("dict", <<>>)>>
                     \o [i \in 1..Len(codes) |->
                            PyValue("dict", [code |-> codes[i]])]
        results == <<none, PyValue("int", 7)>>
    IN  <<[kind |-> "none"], [kind |-> "text"],
          json(none), json(PyValue("list", <<>>)), json(PyValue("dict", <<>>))>>
          \o [i \in 1..Len(errors) |->
                 json(PyValue("dict", [error |-> errors[i]]))]
          \o [i \in 1..Len(results) |->
                 json(PyValue("dict", [result |-> results[i]]))]
          \o [i \in 1..(Len(errors) * Len(results)) |->
                 json(PyValue("dict",
                              [error  |-> errors[1 + ((i - 1) % Len(errors))],
                               result |-> results[1 + ((i - 1)
                                                         \div Len(errors))]]))]

NewProxy ==
    \* BaseProxy(service_url, ...): self.__id_count = 0
    /\ op' = "BaseProxy"
    /\ arg' = NoArg
    /\ out' = NoOut
    /\ obj' = [cls |-> "BaseProxy", id_count |-> 0]
    /\ made' = "BaseProxy"
    /\ madeUnder' = params
    /\ UNCHANGED <<params, coreparams, selecting, tx>>

Call(http) ==
    \* proxy._call(service_name, *args) with this answer of the server
    /\ obj.cls = "BaseProxy"
    /\ obj.id_count < MaxCalls
    /\ op' = "_call"
    /\ arg' = [NoArg EXCEPT !.list = <<http>>]
    /\ LET r == BaseProxy_call(http)
       IN  out' = [NoOut EXCEPT !.err = r.exc, !.list = <<r.code, r.result>>]
    /\ obj' = [obj EXCEPT !.id_count = @ + 1]
    /\ UNCHANGED <<params, coreparams, selecting, made, madeUnder, tx>>

NextRpc ==
    \/ NewProxy
    \/ \E i \in 1..Len(HttpResponses) : Call(HttpResponses[i])

SpecRpc == Init /\ [][NextRpc]_vars

\* C30: every BaseProxy._call ends in exactly one outcome, decided by the
\* parsed response alone: it returns 'result' when 'error' is absent or
\* null and 'result' is present; it raises JSONRPCError with the server's
\* code (-345 when the error object has none) when 'error' is an object,
\* with -344 when 'error' is anything else, with -343 when neither is
\* present; the exception is of the subclass registered for the code when
\* there is one and of JSONRPCError itself otherwise.
C30_CallOutcome ==
    (op = "_call" /\ arg.list[1].kind = "json")
    => LET response == arg.list[1].value
           isDict == response.type = "dict"
           hasError == /\ isDict
                       /\ "error" \in DOMAIN response.val
                       /\ response.val["error"].type # "NoneType"
           hasResult == isDict /\ "result" \in DOMAIN response.val
           raised(code) ==
               /\ out.err = (IF code.type = "int"
                             THEN SUBCLS_BY_CODE(code.val)
                             ELSE "JSONRPCError")
               /\ out.list[1].type = code.type
               /\ code.type = "int" => out.list[1].val = code.val
       IN  IF hasError
           THEN IF response.val["error"].type = "dict"
                THEN raised(dict_get(response.val["error"], "code",
                                     PyValue("int", -345)))
                ELSE raised(PyValue("int", -344))
           ELSE IF hasResult
           THEN out.err = "" /\ out.list[2] = response.val["result"]
           ELSE raised(PyValue("int", -343))

====
